---- MODULE Spec2Model ----
(***************************************************************************)
(* A model of the USDC delegation scripts: the caveat codec, the           *)
(* delegation hasher and builder, the two validators and the chain         *)
(* encoder of scripts/lib/delegation.mjs (current revision, lines          *)
(* 554-1111), and the command line scripts that drive them.                *)
(*                                                                         *)
(* Representation.                                                         *)
(*  - A hex string '0x...' is the sequence of its hex digits (0..15)       *)
(*    after the '0x' prefix; string positions of the code (slice(42),      *)
(*    slice(2, 34)) count the prefix, as in the code.                      *)
(*  - An address string is [id, lc]: which 20 bytes it names and whether   *)
(*    the string is all lower case; toLowerCase() sets lc.                 *)
(*  - A JS number amount is the decimal string amount.toString() yields:   *)
(*    [int, frac] with frac the digits after the point.                    *)
(*  - keccak256 is collision free: a hash is the tuple of what is hashed.  *)
(*  - Date.now() is the variable clock, in milliseconds.                   *)
(*  - A JSON file is the record of its fields: _meta is meta, _chain.parent *)
(*    is chain, the empty sequence when the field is absent.               *)
(***************************************************************************)
EXTENDS Integers, Sequences, FiniteSets, TLC

VARIABLES
    clock,      \* Date.now(), milliseconds
    call,       \* a call of a library function: its arguments and, once made, its result
    files,      \* the delegation file at each path, or none
    run,        \* the script that has just run: its exit status and effects
    demo        \* the demo app: its hook state, pending updates and running handlers

vars == <<clock, call, files, run, demo>>

(***************************************************************************)
(* Bounds of the model                                                     *)
(***************************************************************************)
StartMs == 10000        \* the clock at the start
MaxAdvanceSec == 1      \* how many seconds the clock may advance
MaxCaveats == 2         \* the longest caveat list given to a validator
MaxChain == 2           \* the longest chain given to the chain encoder
MaxDepth == 2           \* the longest chain of delegations the scripts create
MaxBuilds == 2          \* how many delegations one process builds
MaxRequests == 3        \* how many requests one process validates against a parent

(***************************************************************************)
(* Program constants                                                       *)
(***************************************************************************)
USDC_DECIMALS == 6
MsPerSecond == 1000
Uint256HexLen == 64     \* encodePacked uint256: 32 bytes
Uint128HexLen == 32     \* encodePacked uint128: 16 bytes

USDC_ADDRESS ==
    <<0,3,6,12,11,13,5,3,8,4,2,12,5,4,2,6,6,3,4,14,
      7,9,2,9,5,4,1,14,12,2,3,1,8,15,3,13,12,15,7,14>>

Addr(id) == [id |-> id, lc |-> FALSE]

DELEGATION_FRAMEWORK ==
    [ DelegationManager           |-> Addr("DelegationManager"),
      ERC20TransferAmountEnforcer |-> Addr("ERC20TransferAmountEnforcer"),
      TimestampEnforcer           |-> Addr("TimestampEnforcer"),
      ValueLteEnforcer            |-> Addr("ValueLteEnforcer"),
      RedeemerEnforcer            |-> Addr("RedeemerEnforcer"),
      NonceEnforcer               |-> Addr("NonceEnforcer") ]

ROOT_AUTHORITY == [i \in 1..64 |-> 0]

\* the ROOT_AUTHORITY of the README: 0xff...ff, 32 bytes
README_ROOT_AUTHORITY == [i \in 1..64 |-> 15]

(***************************************************************************)
(* JavaScript and viem primitives                                          *)
(***************************************************************************)
ToLowerCase(a) == [a EXCEPT !.lc = TRUE]

Min(a, b) == IF a < b THEN a ELSE b

\* str.slice(start, end) of a '0x'-prefixed hex string, 2 <= start
HexSlice(hex, start, end) == SubSeq(hex, start - 1, Min(end - 2, Len(hex)))

\* str.slice(start)
HexSliceFrom(hex, start) == SubSeq(hex, start - 1, Len(hex))

RECURSIVE PrefixValue(_, _, _)
\* the number the first n digits write in the base
PrefixValue(digits, base, n) ==
    IF n = 0 THEN 0
    ELSE PrefixValue(digits, base, n - 1) * base + digits[n]

DigitsValue(digits, base) == PrefixValue(digits, base, Len(digits))

\* BigInt('0x' + digits), and Number(...) of it
BigIntHex(digits) == DigitsValue(digits, 16)

\* BigInt('0x' + digits) throws a SyntaxError when there is no digit
BigIntThrows(digits) == digits = <<>>

\* the k-th hex digit of n from the right; n is below 16^8 in this model
HexDigit(n, k) == IF k >= 8 THEN 0 ELSE (n \div (16 ^ k)) % 16

\* encodePacked of one unsigned integer: big endian, left padded with zeros
NumToHex(n, width) == [i \in 1..width |-> HexDigit(n, width - i)]

RECURSIVE NumToDec(_)
\* n.toString() of a BigInt: its decimal digits
NumToDec(n) == IF n < 10 THEN <<n>> ELSE NumToDec(n \div 10) \o <<n % 10>>

\* BigInt(str) of a decimal string
BigIntDec(digits) == DigitsValue(digits, 10)

\* str.padEnd(width, '0')
PadEnd(digits, width) ==
    [i \in 1..(IF Len(digits) > width THEN Len(digits) ELSE width) |->
        IF i <= Len(digits) THEN digits[i] ELSE 0]

\* viem parseUnits(amount.toString(), decimals), for at most `decimals`
\* digits after the point: BigInt(integer + fraction.padEnd(decimals, '0'))
ParseUnits(amount, decimals) ==
    amount.int * (10 ^ decimals) + DigitsValue(PadEnd(amount.frac, decimals), 10)

\* an argument the caller left out
Undefined == [undefined |-> TRUE]

\* a number whose toString() is in exponent notation, as '1e-7': JavaScript
\* writes every number below 0.000001 (and from 1e21 on) that way
Exponential(m, e) == [mantissa |-> m, exponent |-> e]

\* parseUnits is given a string that is not a decimal number
ParseUnitsThrows(amount) == "exponent" \in DOMAIN amount

\* if (amount): undefined is falsy, and a number is falsy when it is 0
Truthy(amount) ==
    IF "exponent" \in DOMAIN amount THEN amount.mantissa # 0
    ELSE /\ "int" \in DOMAIN amount
         /\ ~(amount.int = 0 /\ amount.frac = <<>>)

\* Math.floor(Date.now() / 1000)
NowSeconds(ms) == ms \div MsPerSecond

(***************************************************************************)
(* Caveat codec                                                            *)
(***************************************************************************)
encodeERC20TransferAmountTerms(tokenAddress, amount) ==
    tokenAddress \o NumToHex(amount, Uint256HexLen)

\* the two fields written in the other order
encodeTimestampTerms_ModeFirst(timestamp, mode) ==
    LET modeValue == IF mode = "before" THEN 0 ELSE 1
    IN  NumToHex(modeValue, Uint128HexLen) \o NumToHex(timestamp, Uint128HexLen)

encodeTimestampTerms(timestamp, mode) ==
    LET modeValue == IF mode = "before" THEN 0 ELSE 1
    IN  NumToHex(timestamp, Uint128HexLen) \o NumToHex(modeValue, Uint128HexLen)

encodeValueLteTerms(maxValue) == NumToHex(maxValue, Uint256HexLen)

(***************************************************************************)
(* Durations                                                               *)
(***************************************************************************)
Multipliers == [s |-> 1, m |-> 60, h |-> 3600, d |-> 86400]

\* a duration string '<value><unit>' is [value, unit]
parseDuration(duration) == duration.value * Multipliers[duration.unit]

(***************************************************************************)
(* Delegation builder                                                      *)
(***************************************************************************)
Caveat(enforcer, terms) == [enforcer |-> enforcer, terms |-> terms, args |-> <<>>]

\* the caveat list with the amount limit put before the value ceiling
BuildCaveats_AmountFirst(amount, expirySeconds, ms) ==
    LET valueLte == <<[enforcer |-> DELEGATION_FRAMEWORK.ValueLteEnforcer,
                       terms |-> encodeValueLteTerms(0), args |-> <<>>]>>
        amountLimit ==
            IF Truthy(amount)
            THEN <<[enforcer |-> DELEGATION_FRAMEWORK.ERC20TransferAmountEnforcer,
                    terms |-> encodeERC20TransferAmountTerms(
                                  USDC_ADDRESS, ParseUnits(amount, USDC_DECIMALS)),
                    args |-> <<>>]>>
            ELSE <<>>
        expiry ==
            IF expirySeconds # 0
            THEN <<[enforcer |-> DELEGATION_FRAMEWORK.TimestampEnforcer,
                    terms |-> encodeTimestampTerms(NowSeconds(ms) + expirySeconds,
                                                   "before"),
                    args |-> <<>>]>>
            ELSE <<>>
    IN  amountLimit \o valueLte \o expiry

\* the caveat list buildDelegation assembles when Date.now() is ms
BuildCaveats(amount, expirySeconds, ms) ==
    LET valueLte == <<Caveat(DELEGATION_FRAMEWORK.ValueLteEnforcer,
                             encodeValueLteTerms(0))>>
        amountLimit ==
            IF Truthy(amount)
            THEN <<Caveat(DELEGATION_FRAMEWORK.ERC20TransferAmountEnforcer,
                          encodeERC20TransferAmountTerms(
                              USDC_ADDRESS, ParseUnits(amount, USDC_DECIMALS)))>>
            ELSE <<>>
        expiry ==
            IF expirySeconds # 0
            THEN <<Caveat(DELEGATION_FRAMEWORK.TimestampEnforcer,
                          encodeTimestampTerms(NowSeconds(ms) + expirySeconds,
                                               "before"))>>
            ELSE <<>>
    IN  valueLte \o amountLimit \o expiry

\* buildDelegation(params) when Date.now() is ms; params.authority may be absent
buildDelegation(params, ms) ==
    [ delegate  |-> params.delegate,
      delegator |-> params.delegator,
      authority |-> IF "authority" \in DOMAIN params THEN params.authority
                    ELSE ROOT_AUTHORITY,
      caveats   |-> BuildCaveats(params.amount, params.expirySeconds, ms),
      salt      |-> ms,
      signature |-> <<>> ]

(***************************************************************************)
(* Delegation hasher                                                       *)
(***************************************************************************)
DELEGATION_TYPEHASH ==
    "Delegation(address delegate,address delegator,bytes32 authority,bytes32 caveatsHash,uint256 salt)"

CAVEAT_TYPEHASH == "Caveat(address enforcer,bytes32 termsHash)"

\* a caveat hash that takes the args in
hashCaveat_WithArgs(caveat) ==
    <<CAVEAT_TYPEHASH, caveat.enforcer.id, caveat.terms, caveat.args>>

hashCaveat(caveat) == <<CAVEAT_TYPEHASH, caveat.enforcer.id, caveat.terms>>

hashCaveatsArray(caveats) == [i \in 1..Len(caveats) |-> hashCaveat(caveats[i])]

getDelegationHash(delegation) ==
    << DELEGATION_TYPEHASH,
       delegation.delegate.id,
       delegation.delegator.id,
       delegation.authority,
       hashCaveatsArray(delegation.caveats),
       delegation.salt >>

(***************************************************************************)
(* Signing                                                                 *)
(***************************************************************************)
\* the message signDelegation hands to walletClient.signTypedData
TypedDataMessage(delegation) ==
    [ delegate  |-> delegation.delegate.id,
      delegator |-> delegation.delegator.id,
      authority |-> delegation.authority,
      caveats   |-> [i \in 1..Len(delegation.caveats) |->
                        [ enforcer |-> delegation.caveats[i].enforcer.id,
                          terms    |-> delegation.caveats[i].terms ]],
      salt      |-> delegation.salt ]

\* the type schema given to signTypedData; a member of type T[] has array set
EIP712_TYPES ==
    [ Caveat     |-> << [name |-> "enforcer", type |-> "address", array |-> FALSE],
                        [name |-> "terms", type |-> "bytes", array |-> FALSE] >>,
      Delegation |-> << [name |-> "delegate", type |-> "address", array |-> FALSE],
                        [name |-> "delegator", type |-> "address", array |-> FALSE],
                        [name |-> "authority", type |-> "bytes32", array |-> FALSE],
                        [name |-> "caveats", type |-> "Caveat", array |-> TRUE],
                        [name |-> "salt", type |-> "uint256", array |-> FALSE] >> ]

RECURSIVE EncodeMembers(_)
\* 'type name,type name,...' of the members of a struct type
EncodeMembers(members) ==
    IF members = <<>> THEN ""
    ELSE Head(members).type \o (IF Head(members).array THEN "[]" ELSE "")
         \o " " \o Head(members).name
         \o (IF Tail(members) = <<>> THEN "" ELSE ",")
         \o EncodeMembers(Tail(members))

\* 'Name(members)' of one struct type
EncodeStructType(types, name) == name \o "(" \o EncodeMembers(types[name]) \o ")"

\* the struct types a struct type refers to
ReferencedTypes(types, name) ==
    { types[name][i].type : i \in 1..Len(types[name]) } \cap DOMAIN types

RECURSIVE EncodeReferenced(_, _)
EncodeReferenced(types, names) ==
    IF names = {} THEN ""
    ELSE LET n == CHOOSE m \in names : TRUE
         IN  EncodeStructType(types, n) \o EncodeReferenced(types, names \ {n})

\* encodeType of EIP-712: the primary type followed by the types it refers to
EncodeType(types, primaryType) ==
    EncodeStructType(types, primaryType)
    \o EncodeReferenced(types, ReferencedTypes(types, primaryType))

\* hashStruct of EIP-712 for a caveat and for the message of signDelegation:
\* the type hash, then the members, a bytes member by its hash and an array by
\* the hash of its members' struct hashes
HashStructCaveat(caveat) ==
    <<EncodeType(EIP712_TYPES, "Caveat"), caveat.enforcer, caveat.terms>>

HashStruct(message) ==
    << EncodeType(EIP712_TYPES, "Delegation"),
       message.delegate,
       message.delegator,
       message.authority,
       [i \in 1..Len(message.caveats) |-> HashStructCaveat(message.caveats[i])],
       message.salt >>

\* signDelegation(delegation, walletClient): the signature is the account's
\* over the message
signDelegation(delegation, account) ==
    [delegation EXCEPT !.signature = <<account.id, TypedDataMessage(delegation)>>]

(***************************************************************************)
(* Chain encoder                                                           *)
(***************************************************************************)
EncodeCaveat(c) == [enforcer |-> c.enforcer, terms |-> c.terms, args |-> c.args]

EncodeDelegation(d) ==
    [ delegate  |-> d.delegate,
      delegator |-> d.delegator,
      authority |-> d.authority,
      caveats   |-> [i \in 1..Len(d.caveats) |-> EncodeCaveat(d.caveats[i])],
      salt      |-> NumToDec(d.salt),
      signature |-> d.signature ]

\* encodePermissionContext(delegationChain): the JSON text of the mapped chain.
\* It returns for every chain; threw records that no exception is raised
encodePermissionContext(delegationChain) ==
    [ threw |-> FALSE,
      json  |-> [i \in 1..Len(delegationChain) |-> EncodeDelegation(delegationChain[i])] ]

\* buildPermissionContext(delegationChain) of execute-transfer: the hex of the
\* JSON text of the mapped chain
buildPermissionContext(delegationChain) ==
    [ threw |-> FALSE,
      hex   |-> [i \in 1..Len(delegationChain) |-> EncodeDelegation(delegationChain[i])] ]

(***************************************************************************)
(* Scope validator                                                         *)
(***************************************************************************)
SameEnforcer(a, b) == ToLowerCase(a) = ToLowerCase(b)

\* caveats.find(c => c.enforcer.toLowerCase() === enforcer.toLowerCase()):
\* the index of the first match, 0 for undefined
findCaveat(caveats, enforcer) ==
    LET hits == {i \in 1..Len(caveats) : SameEnforcer(caveats[i].enforcer, enforcer)}
    IN  IF hits = {} THEN 0 ELSE CHOOSE i \in hits : \A j \in hits : i <= j

\* the decode of an amount-limit caveat's limit
DecodeAmountLimit(terms) == BigIntHex(HexSliceFrom(terms, 42))

\* the decode of a timestamp caveat's two fields
DecodeThreshold(terms) == BigIntHex(HexSlice(terms, 2, 34))
DecodeMode(terms) == BigIntHex(HexSlice(terms, 34, 66))

Error(msg, n) == [msg |-> msg, n |-> n]
AmountScopeMsg == "Sub-delegation amount exceeds parent scope"
ExpiryScopeMsg == "Sub-delegation expiry exceeds parent expiry"
AmountLimitMsg == "Transfer amount exceeds delegated limit"
ExpiredMsg == "Delegation has expired"

Result(errors) == [valid |-> Len(errors) = 0, errors |-> errors]

\* the call ends with the SyntaxError of BigInt instead of returning
SyntaxError == [threw |-> TRUE, name |-> "SyntaxError"]

\* the call ends with the error of parseUnits instead of returning
ParseError == [threw |-> TRUE, name |-> "parseUnits"]

\* the guard of the amount check
ScopeChecksAmount(caveatIndex, amount) == caveatIndex # 0 /\ Truthy(amount)

\* the guard of the expiry check
ScopeChecksExpiry(caveatIndex, expirySeconds) == caveatIndex # 0 /\ expirySeconds # 0

\* the comparison with the boundary on the wrong side
SubAmountExceeds_AtLimit(subAmount, parentAmount) == subAmount >= parentAmount

SubAmountExceeds(subAmount, parentAmount) == subAmount > parentAmount

SubExpiryExceeds(subExpiry, parentExpiry) == subExpiry > parentExpiry

ScopeAmountErrors(parentDelegation, subDelegationParams) ==
    LET i == findCaveat(parentDelegation.caveats,
                        DELEGATION_FRAMEWORK.ERC20TransferAmountEnforcer)
    IN  IF ScopeChecksAmount(i, subDelegationParams.amount)
        THEN LET parentAmount == DecodeAmountLimit(parentDelegation.caveats[i].terms)
                 subAmount == ParseUnits(subDelegationParams.amount, USDC_DECIMALS)
             IN  IF SubAmountExceeds(subAmount, parentAmount)
                 THEN <<Error(AmountScopeMsg, subAmount)>>
                 ELSE <<>>
        ELSE <<>>

ScopeExpiryErrors(parentDelegation, subDelegationParams, ms) ==
    LET i == findCaveat(parentDelegation.caveats,
                        DELEGATION_FRAMEWORK.TimestampEnforcer)
    IN  IF ScopeChecksExpiry(i, subDelegationParams.expirySeconds)
        THEN LET parentExpiry == DecodeThreshold(parentDelegation.caveats[i].terms)
                 subExpiry == NowSeconds(ms) + subDelegationParams.expirySeconds
             IN  IF SubExpiryExceeds(subExpiry, parentExpiry)
                 THEN <<Error(ExpiryScopeMsg, 0)>>
                 ELSE <<>>
        ELSE <<>>

\* one of the two BigInt('0x' + ...) of validateSubDelegationScope is given no digit
ScopeThrows(parentDelegation, subDelegationParams) ==
    LET a == findCaveat(parentDelegation.caveats,
                        DELEGATION_FRAMEWORK.ERC20TransferAmountEnforcer)
        e == findCaveat(parentDelegation.caveats,
                        DELEGATION_FRAMEWORK.TimestampEnforcer)
    IN  \/ /\ ScopeChecksAmount(a, subDelegationParams.amount)
           /\ BigIntThrows(HexSliceFrom(parentDelegation.caveats[a].terms, 42))
        \/ /\ ScopeChecksExpiry(e, subDelegationParams.expirySeconds)
           /\ BigIntThrows(HexSlice(parentDelegation.caveats[e].terms, 2, 34))

\* the BigInt('0x' + ...) of the amount check is given no digit
ScopeAmountThrows(parentDelegation, subDelegationParams) ==
    LET a == findCaveat(parentDelegation.caveats,
                        DELEGATION_FRAMEWORK.ERC20TransferAmountEnforcer)
    IN  /\ ScopeChecksAmount(a, subDelegationParams.amount)
        /\ BigIntThrows(HexSliceFrom(parentDelegation.caveats[a].terms, 42))

\* the parseUnits of the amount check throws
ScopeParseThrows(parentDelegation, subDelegationParams) ==
    LET a == findCaveat(parentDelegation.caveats,
                        DELEGATION_FRAMEWORK.ERC20TransferAmountEnforcer)
    IN  /\ ScopeChecksAmount(a, subDelegationParams.amount)
        /\ ParseUnitsThrows(subDelegationParams.amount)

\* validateSubDelegationScope(parentDelegation, subDelegationParams) when
\* Date.now() is ms
validateSubDelegationScope(parentDelegation, subDelegationParams, ms) ==
    IF ScopeAmountThrows(parentDelegation, subDelegationParams)
    THEN SyntaxError
    ELSE IF ScopeParseThrows(parentDelegation, subDelegationParams)
    THEN ParseError
    ELSE IF ScopeThrows(parentDelegation, subDelegationParams)
    THEN SyntaxError
    ELSE Result(ScopeAmountErrors(parentDelegation, subDelegationParams)
                \o ScopeExpiryErrors(parentDelegation, subDelegationParams, ms))

(***************************************************************************)
(* Transfer validator                                                      *)
(***************************************************************************)
\* the comparison with the boundary on the wrong side
ExceedsLimit_AtLimit(amountWei, maxAmount) == amountWei >= maxAmount

ExceedsLimit(amountWei, maxAmount) == amountWei > maxAmount

Expired(mode, now, threshold) == mode = 0 /\ now >= threshold

\* a loop turn that also reports a caveat of a kind it does not know
CaveatErrors_RejectUnknown(caveat, amountWei, now) ==
    LET enforcerLower == ToLowerCase(caveat.enforcer)
    IN  IF enforcerLower = ToLowerCase(DELEGATION_FRAMEWORK.ERC20TransferAmountEnforcer)
        THEN IF ExceedsLimit(amountWei, DecodeAmountLimit(caveat.terms))
             THEN <<Error(AmountLimitMsg, DecodeAmountLimit(caveat.terms))>>
             ELSE <<>>
        ELSE IF enforcerLower = ToLowerCase(DELEGATION_FRAMEWORK.TimestampEnforcer)
        THEN IF Expired(DecodeMode(caveat.terms), now, DecodeThreshold(caveat.terms))
             THEN <<Error(ExpiredMsg, 0)>>
             ELSE <<>>
        ELSE IF enforcerLower = ToLowerCase(DELEGATION_FRAMEWORK.ValueLteEnforcer)
        THEN <<>>
        ELSE <<Error("Unknown enforcer", 0)>>

\* what one turn of the loop over the caveats pushes
CaveatErrors(caveat, amountWei, now) ==
    LET enforcerLower == ToLowerCase(caveat.enforcer)
        amountPart ==
            IF enforcerLower = ToLowerCase(DELEGATION_FRAMEWORK.ERC20TransferAmountEnforcer)
            THEN LET maxAmount == DecodeAmountLimit(caveat.terms)
                 IN  IF ExceedsLimit(amountWei, maxAmount)
                     THEN <<Error(AmountLimitMsg, maxAmount)>>
                     ELSE <<>>
            ELSE <<>>
        timePart ==
            IF enforcerLower = ToLowerCase(DELEGATION_FRAMEWORK.TimestampEnforcer)
            THEN LET threshold == DecodeThreshold(caveat.terms)
                     mode == DecodeMode(caveat.terms)
                 IN  IF Expired(mode, now, threshold)
                     THEN <<Error(ExpiredMsg, 0)>>
                     ELSE <<>>
            ELSE <<>>
    IN  amountPart \o timePart

RECURSIVE LoopErrors_FailFast(_, _, _)
\* a loop that returns at the first caveat that reports
LoopErrors_FailFast(caveats, amountWei, now) ==
    IF caveats = <<>> THEN <<>>
    ELSE IF CaveatErrors(Head(caveats), amountWei, now) # <<>>
         THEN CaveatErrors(Head(caveats), amountWei, now)
         ELSE LoopErrors_FailFast(Tail(caveats), amountWei, now)

RECURSIVE LoopErrors(_, _, _)
\* the for-loop of validateTransfer over delegation.caveats
LoopErrors(caveats, amountWei, now) ==
    IF caveats = <<>> THEN <<>>
    ELSE CaveatErrors(Head(caveats), amountWei, now)
         \o LoopErrors(Tail(caveats), amountWei, now)

\* a BigInt('0x' + ...) of one turn of the loop is given no digit
CaveatThrows(caveat) ==
    LET enforcerLower == ToLowerCase(caveat.enforcer)
    IN  \/ /\ enforcerLower = ToLowerCase(DELEGATION_FRAMEWORK.ERC20TransferAmountEnforcer)
           /\ BigIntThrows(HexSliceFrom(caveat.terms, 42))
        \/ /\ enforcerLower = ToLowerCase(DELEGATION_FRAMEWORK.TimestampEnforcer)
           /\ \/ BigIntThrows(HexSlice(caveat.terms, 2, 34))
              \/ BigIntThrows(HexSlice(caveat.terms, 34, 66))

\* validateTransfer(delegation, to, amount) when Date.now() is ms
validateTransfer(delegation, to, amount, ms) ==
    IF ParseUnitsThrows(amount)
    THEN ParseError
    ELSE IF \E i \in 1..Len(delegation.caveats) : CaveatThrows(delegation.caveats[i])
    THEN SyntaxError
    ELSE Result(LoopErrors(delegation.caveats,
                           ParseUnits(amount, USDC_DECIMALS),
                           NowSeconds(ms)))

(***************************************************************************)
(* The clock                                                               *)
(***************************************************************************)
StartSec == NowSeconds(StartMs)

\* no library call pending; no script running
NoCall == [fn |-> "none"]
NoRun == [cmd |-> "none"]

\* JavaScript's null
null == [null |-> TRUE]

\* the state useDelegationDemo starts in
initialState ==
    [ step           |-> 0,
      loading        |-> FALSE,
      rootDelegation |-> null,
      subDelegations |-> <<>>,
      transfers      |-> <<null, null, null>> ]

\* the demo app after its first render: state is what useState returned to the
\* last render, queue the setState calls no render has applied yet, logs the
\* number of entries of logs, tasks the async handlers that are waiting on a
\* delay, recorded how many times a transfer was stored for each sub-agent
\* since the last reset
Mounted ==
    [ state    |-> initialState,
      queue    |-> <<>>,
      logs     |-> 0,
      tasks    |-> <<>>,
      recorded |-> <<0, 0, 0>> ]

\* time passes between calls and between scripts: Date.now() grows by a second
Tick ==
    /\ run = NoRun
    /\ NowSeconds(clock + MsPerSecond) <= StartSec + MaxAdvanceSec
    /\ clock' = clock + MsPerSecond
    /\ UNCHANGED <<call, files, run, demo>>

(***************************************************************************)
(* The library, called directly: the arguments a caller may pass           *)
(***************************************************************************)
Num(i, f) == [int |-> i, frac |-> f]

\* amounts as the command line gives them: 0, 0.999999, 1, 1.000001, 2
Amounts ==
    { Num(0, <<>>), Num(0, <<9,9,9,9,9,9>>), Num(1, <<>>),
      Num(1, <<0,0,0,0,0,1>>), Num(2, <<>>) }

\* the limits of the amount caveats given to the validators: 1 and 2 USDC
LimitAmounts == { Num(1, <<>>), Num(2, <<>>) }

Duration(v, u) == [value |-> v, unit |-> u]

Durations == { Duration(0, "s"), Duration(1, "s"), Duration(2, "s"), Duration(1, "m") }

Thresholds == StartSec .. (StartSec + 1)

Modes == {"before", "after"}

AmountCaveats ==
    { Caveat(e, encodeERC20TransferAmountTerms(USDC_ADDRESS,
                                               ParseUnits(a, USDC_DECIMALS))) :
        e \in { DELEGATION_FRAMEWORK.ERC20TransferAmountEnforcer,
                ToLowerCase(DELEGATION_FRAMEWORK.ERC20TransferAmountEnforcer) },
        a \in LimitAmounts }

TimestampCaveats ==
    { Caveat(DELEGATION_FRAMEWORK.TimestampEnforcer, encodeTimestampTerms(t, m)) :
        t \in Thresholds, m \in Modes }

OtherCaveats ==
    { Caveat(DELEGATION_FRAMEWORK.ValueLteEnforcer, encodeValueLteTerms(0)),
      Caveat(DELEGATION_FRAMEWORK.RedeemerEnforcer, <<>>) }

CaveatPool == AmountCaveats \cup TimestampCaveats \cup OtherCaveats

CaveatLists == UNION { [1..n -> CaveatPool] : n \in 0..MaxCaveats }

Alice == Addr("alice")
Bob == Addr("bob")
Carol == Addr("carol")

\* a delegation read from a file, with the given caveats
DelegationWith(caveats) ==
    [ delegate  |-> Bob,
      delegator |-> Alice,
      authority |-> ROOT_AUTHORITY,
      caveats   |-> caveats,
      salt      |-> StartMs,
      signature |-> <<>> ]

\* the paths the scripts are given, and the directory before any file is written
Paths == {"delegation.json", "subdelegation.json"}
NoFiles == [p \in Paths |-> <<>>]

\* a token that is not USDC
OTHER_TOKEN ==
    <<13,10,12,1,7,15,9,5,8,13,2,14,14,5,2,3,10,2,2,0,
      6,2,0,6,9,9,4,5,9,7,12,1,3,13,8,3,1,14,12,7>>

\* the calls a caller may make, before they are made
ScopeCalls ==
    { [ fn         |-> "validateSubDelegationScope",
        delegation |-> DelegationWith(caveats),
        params     |-> [amount |-> amount, expirySeconds |-> parseDuration(duration)],
        state      |-> "pending" ] :
        caveats \in CaveatLists, amount \in Amounts, duration \in Durations }

TransferCalls ==
    { [ fn         |-> "validateTransfer",
        delegation |-> DelegationWith(caveats),
        to         |-> to,
        amount     |-> amount,
        state      |-> "pending" ] :
        caveats \in CaveatLists, amount \in Amounts, to \in {Carol} }

\* a signed root delegation and a signed sub-delegation of it
RootSample ==
    signDelegation(
        buildDelegation([delegator |-> Alice, delegate |-> Bob,
                         amount |-> Num(1, <<>>), expirySeconds |-> 60], StartMs),
        Alice)

ChildSample ==
    signDelegation(
        buildDelegation([delegator |-> Bob, delegate |-> Carol,
                         authority |-> getDelegationHash(RootSample),
                         amount |-> Num(1, <<>>), expirySeconds |-> 60], StartMs),
        Bob)

\* the root with its amount limit raised after the sub-delegation was derived
TamperedRoot ==
    [RootSample EXCEPT !.caveats = BuildCaveats(Num(2, <<>>), 60, StartMs)]

ChainPool == { RootSample, ChildSample, TamperedRoot }

\* chains as a caller may pass them, leaf first
Chains == UNION { [1..n -> ChainPool] : n \in 1..MaxChain }

ChainCalls ==
    { [ fn    |-> fn,
        chain |-> chain,
        state |-> "pending" ] :
        fn \in {"encodePermissionContext", "buildPermissionContext"},
        chain \in Chains }

\* the parameters a caller may pass to buildDelegation: amount a number or
\* left out, authority a parent hash or left out
BuildParams ==
    { [delegator |-> Alice, delegate |-> Bob, amount |-> a, expirySeconds |-> e] :
        a \in Amounts \cup {Undefined}, e \in {parseDuration(d) : d \in Durations} }
    \cup
    { [delegator |-> Bob, delegate |-> Carol, amount |-> a, expirySeconds |-> e,
       authority |-> getDelegationHash(RootSample)] :
        a \in Amounts \cup {Undefined}, e \in {parseDuration(d) : d \in Durations} }

\* a process that calls buildDelegation on the same parameters, time after time
BuildCalls ==
    { [ fn     |-> "buildDelegation",
        params |-> params,
        built  |-> <<>>,
        state  |-> "pending" ] : params \in BuildParams }

\* delegations a caller may hash: a signed root, and the root with one thing
\* changed
HashPool ==
    LET d == RootSample
        n == Len(d.caveats)
    IN  { d,
          [d EXCEPT !.signature = <<>>],
          [d EXCEPT !.caveats[1].args = <<1>>],
          [d EXCEPT !.delegate = ToLowerCase(Bob)],
          [d EXCEPT !.delegate = Carol],
          [d EXCEPT !.delegator = Bob],
          [d EXCEPT !.authority = getDelegationHash(RootSample)],
          [d EXCEPT !.salt = StartMs + 1],
          [d EXCEPT !.caveats = [i \in 1..n |-> d.caveats[n + 1 - i]]],
          [d EXCEPT !.caveats = SubSeq(d.caveats, 1, n - 1)],
          [d EXCEPT !.caveats[n].terms = encodeTimestampTerms(StartSec, "before")],
          [d EXCEPT !.caveats[n].enforcer = DELEGATION_FRAMEWORK.RedeemerEnforcer],
          [d EXCEPT !.caveats[n].enforcer =
                        ToLowerCase(DELEGATION_FRAMEWORK.TimestampEnforcer)] }

\* a process that hashes two delegations
HashCalls ==
    { [ fn    |-> "getDelegationHash",
        a     |-> a,
        b     |-> b,
        state |-> "pending" ] : a \in HashPool, b \in HashPool }

\* a parent that allows 2 USDC until one second after the start
SharedParent ==
    DelegationWith(
        << Caveat(DELEGATION_FRAMEWORK.ERC20TransferAmountEnforcer,
                  encodeERC20TransferAmountTerms(
                      USDC_ADDRESS, ParseUnits(Num(2, <<>>), USDC_DECIMALS))),
           Caveat(DELEGATION_FRAMEWORK.TimestampEnforcer,
                  encodeTimestampTerms(StartSec + 1, "before")) >>)

\* the amounts requested against the parent, one after the other
RequestAmounts == { Num(1, <<>>), Num(2, <<>>), Num(3, <<>>) }

\* a process that validates request after request against the same parent
RequestCalls ==
    { [ fn         |-> "requests",
        delegation |-> SharedParent,
        history    |-> <<>>,
        state      |-> "pending" ] }

\* the tokens, amounts and timestamps a caller may pass to the encoders
EncodeTokens == { USDC_ADDRESS, OTHER_TOKEN }
EncodeAmounts == { ParseUnits(a, USDC_DECIMALS) : a \in Amounts }
EncodeTimestamps == {0} \cup Thresholds

EncodeCalls ==
    { [ fn     |-> "encodeERC20TransferAmountTerms",
        token  |-> token,
        amount |-> amount,
        state  |-> "pending" ] : token \in EncodeTokens, amount \in EncodeAmounts }
    \cup
    { [ fn        |-> "encodeTimestampTerms",
        timestamp |-> timestamp,
        mode      |-> mode,
        state     |-> "pending" ] : timestamp \in EncodeTimestamps, mode \in Modes }

Returned(c, ms, ret) ==
    [x \in DOMAIN c \cup {"ms", "ret"} |->
        CASE x = "state" -> "returned"
          [] x = "ms"    -> ms
          [] x = "ret"   -> ret
          [] OTHER       -> c[x]]

\* validateSubDelegationScope runs, now or again later, on the same arguments
ValidateSubDelegationScopeCall ==
    /\ call.fn = "validateSubDelegationScope"
    /\ call' = Returned(call, clock,
                        validateSubDelegationScope(call.delegation, call.params, clock))
    /\ UNCHANGED <<clock, files, run, demo>>

\* validateTransfer runs, now or again later, on the same arguments
ValidateTransferCall ==
    /\ call.fn = "validateTransfer"
    /\ call' = Returned(call, clock,
                        validateTransfer(call.delegation, call.to, call.amount, clock))
    /\ UNCHANGED <<clock, files, run, demo>>

\* encodePermissionContext runs on the chain
EncodePermissionContextCall ==
    /\ call.fn = "encodePermissionContext"
    /\ call' = Returned(call, clock, encodePermissionContext(call.chain))
    /\ UNCHANGED <<clock, files, run, demo>>

\* buildPermissionContext of execute-transfer runs on the chain
BuildPermissionContextCall ==
    /\ call.fn = "buildPermissionContext"
    /\ call' = Returned(call, clock, buildPermissionContext(call.chain))
    /\ UNCHANGED <<clock, files, run, demo>>

\* buildDelegation runs once more in the process
BuildDelegationCall ==
    /\ call.fn = "buildDelegation"
    /\ Len(call.built) < MaxBuilds
    /\ call' = [call EXCEPT !.built = Append(@, buildDelegation(call.params, clock)),
                            !.state = "returned"]
    /\ UNCHANGED <<clock, files, run, demo>>

\* encodeERC20TransferAmountTerms runs on the token and the amount
EncodeERC20TransferAmountTermsCall ==
    /\ call.fn = "encodeERC20TransferAmountTerms"
    /\ call' = Returned(call, clock,
                        encodeERC20TransferAmountTerms(call.token, call.amount))
    /\ UNCHANGED <<clock, files, run, demo>>

\* encodeTimestampTerms runs on the timestamp and the mode
EncodeTimestampTermsCall ==
    /\ call.fn = "encodeTimestampTerms"
    /\ call' = Returned(call, clock, encodeTimestampTerms(call.timestamp, call.mode))
    /\ UNCHANGED <<clock, files, run, demo>>

\* getDelegationHash runs on the one delegation and on the other
GetDelegationHashCall ==
    /\ call.fn = "getDelegationHash"
    /\ call' = Returned(call, clock,
                        <<getDelegationHash(call.a), getDelegationHash(call.b)>>)
    /\ UNCHANGED <<clock, files, run, demo>>

\* what the process keeps of a request: the function, the recipient if there
\* is one, the amount, Date.now() and the result
Request(fn, to, amount, ms, ret) ==
    [fn |-> fn, to |-> to, amount |-> amount, ms |-> ms, ret |-> ret]

\* the minor units the earlier accepted requests of a process add up to
RECURSIVE AcceptedTotal(_)
AcceptedTotal(history) ==
    IF history = <<>> THEN 0
    ELSE AcceptedTotal(SubSeq(history, 1, Len(history) - 1))
         + (IF history[Len(history)].ret.valid
            THEN ParseUnits(history[Len(history)].amount, USDC_DECIMALS) ELSE 0)

\* a validator that also rejects a sibling when the accepted ones and it
\* together exceed the parent's limit
SiblingScopeCall_RunningTotal ==
    /\ call.fn = "requests"
    /\ Len(call.history) < MaxRequests
    /\ \E amount \in RequestAmounts :
         LET ret == validateSubDelegationScope(
                        call.delegation, [amount |-> amount, expirySeconds |-> 1], clock)
             over == AcceptedTotal(call.history) + ParseUnits(amount, USDC_DECIMALS)
                         > DecodeAmountLimit(call.delegation.caveats[1].terms)
             total == IF over /\ ret.valid
                      THEN Result(<<Error(AmountScopeMsg, 0)>>) ELSE ret
         IN  call' = [call EXCEPT
                 !.history = Append(@, Request("validateSubDelegationScope",
                                               Undefined, amount, clock, total)),
                 !.state = "returned"]
    /\ UNCHANGED <<clock, files, run, demo>>

\* the process asks validateSubDelegationScope about one more sibling
SiblingScopeCall ==
    /\ call.fn = "requests"
    /\ Len(call.history) < MaxRequests
    /\ \E amount \in RequestAmounts :
         call' = [call EXCEPT
             !.history = Append(@, Request(
                 "validateSubDelegationScope", Undefined, amount, clock,
                 validateSubDelegationScope(
                     call.delegation, [amount |-> amount, expirySeconds |-> 1], clock))),
             !.state = "returned"]
    /\ UNCHANGED <<clock, files, run, demo>>

\* a validator that refuses a transfer back to the delegator
FurtherTransferCall_CheckRecipient ==
    /\ call.fn = "requests"
    /\ Len(call.history) < MaxRequests
    /\ \E amount \in RequestAmounts, to \in {Carol, Alice} :
         LET ret == validateTransfer(call.delegation, to, amount, clock)
         IN  call' = [call EXCEPT
                 !.history = Append(@, Request(
                     "validateTransfer", to, amount, clock,
                     IF to = call.delegation.delegator
                     THEN Result(ret.errors \o <<Error("Recipient not allowed", 0)>>)
                     ELSE ret)),
                 !.state = "returned"]
    /\ UNCHANGED <<clock, files, run, demo>>

\* the process asks validateTransfer about one more transfer
FurtherTransferCall ==
    /\ call.fn = "requests"
    /\ Len(call.history) < MaxRequests
    /\ \E amount \in RequestAmounts, to \in {Carol, Alice} :
         call' = [call EXCEPT
             !.history = Append(@, Request(
                 "validateTransfer", to, amount, clock,
                 validateTransfer(call.delegation, to, amount, clock))),
             !.state = "returned"]
    /\ UNCHANGED <<clock, files, run, demo>>

LibInit ==
    /\ clock = StartMs
    /\ call \in ScopeCalls \cup TransferCalls \cup ChainCalls \cup BuildCalls
                 \cup EncodeCalls \cup HashCalls \cup RequestCalls
    /\ files = NoFiles
    /\ run = NoRun
    /\ demo = Mounted

LibNext ==
    \/ Tick
    \/ ValidateSubDelegationScopeCall
    \/ ValidateTransferCall
    \/ EncodePermissionContextCall
    \/ BuildPermissionContextCall
    \/ BuildDelegationCall
    \/ EncodeERC20TransferAmountTermsCall
    \/ EncodeTimestampTermsCall
    \/ GetDelegationHashCall
    \/ SiblingScopeCall
    \/ FurtherTransferCall

SpecLib == LibInit /\ [][LibNext]_vars

(***************************************************************************)
(* The validators, given delegations that this library did not build       *)
(***************************************************************************)
\* a terms blob with one byte too many, and one cut to its first bytes
OverLength(terms) == terms \o <<0, 0>>
Truncated(terms, bytes) == SubSeq(terms, 1, 2 * bytes)

AmountTermsLen == 52    \* bytes of encodePacked(address, uint256)
TimestampTermsLen == 32 \* bytes of encodePacked(uint128, uint128)
AddressLen == 20        \* bytes of an address

\* amount-limit terms of 53, of 51 and of 20 bytes
WrongLengthAmountTerms ==
    LET terms == encodeERC20TransferAmountTerms(
                     USDC_ADDRESS, ParseUnits(Num(1, <<>>), USDC_DECIMALS))
    IN  { OverLength(terms), Truncated(terms, AmountTermsLen - 1),
          Truncated(terms, AddressLen) }

\* time-window terms of 33, of 31 and of 16 bytes
WrongLengthTimestampTerms ==
    UNION { LET terms == encodeTimestampTerms(t, "before")
            IN  { OverLength(terms), Truncated(terms, TimestampTermsLen - 1),
                  Truncated(terms, TimestampTermsLen \div 2) } : t \in Thresholds }

\* amount-limit terms of the right length on another token
OtherTokenTerms ==
    { encodeERC20TransferAmountTerms(OTHER_TOKEN, ParseUnits(a, USDC_DECIMALS)) :
        a \in LimitAmounts }

ForeignCaveats ==
    { Caveat(DELEGATION_FRAMEWORK.ERC20TransferAmountEnforcer, terms) :
        terms \in WrongLengthAmountTerms \cup OtherTokenTerms }
    \cup { Caveat(DELEGATION_FRAMEWORK.TimestampEnforcer, terms) :
              terms \in WrongLengthTimestampTerms }

\* one foreign caveat, alone or after the value ceiling the builder writes
ForeignCaveatLists ==
    { <<c>> : c \in ForeignCaveats }
    \cup { <<Caveat(DELEGATION_FRAMEWORK.ValueLteEnforcer, encodeValueLteTerms(0)), c>> :
              c \in ForeignCaveats }

ForeignScopeCalls ==
    { [ fn         |-> "validateSubDelegationScope",
        delegation |-> DelegationWith(caveats),
        params     |-> [amount |-> amount, expirySeconds |-> parseDuration(duration)],
        state      |-> "pending" ] :
        caveats \in ForeignCaveatLists, amount \in Amounts, duration \in Durations }

ForeignTransferCalls ==
    { [ fn         |-> "validateTransfer",
        delegation |-> DelegationWith(caveats),
        to         |-> to,
        amount     |-> amount,
        state      |-> "pending" ] :
        caveats \in ForeignCaveatLists, amount \in Amounts, to \in {Carol} }

ForeignInit ==
    /\ clock = StartMs
    /\ call \in ForeignScopeCalls \cup ForeignTransferCalls
    /\ files = NoFiles
    /\ run = NoRun
    /\ demo = Mounted

ForeignNext ==
    \/ Tick
    \/ ValidateSubDelegationScopeCall
    \/ ValidateTransferCall

SpecForeign == ForeignInit /\ [][ForeignNext]_vars

(***************************************************************************)
(* The validators, given any number as the amount                          *)
(***************************************************************************)
\* 1 USDC, and a tenth of the smallest unit of USDC
NumberAmounts == { Num(1, <<>>), Exponential(1, -7) }

NumberScopeCalls ==
    { [ fn         |-> "validateSubDelegationScope",
        delegation |-> DelegationWith(caveats),
        params     |-> [amount |-> amount, expirySeconds |-> parseDuration(duration)],
        state      |-> "pending" ] :
        caveats \in CaveatLists, amount \in NumberAmounts,
        duration \in {Duration(1, "s")} }

NumberTransferCalls ==
    { [ fn         |-> "validateTransfer",
        delegation |-> DelegationWith(caveats),
        to         |-> to,
        amount     |-> amount,
        state      |-> "pending" ] :
        caveats \in CaveatLists, amount \in NumberAmounts, to \in {Carol} }

NumberInit ==
    /\ clock = StartMs
    /\ call \in NumberScopeCalls \cup NumberTransferCalls
    /\ files = NoFiles
    /\ run = NoRun
    /\ demo = Mounted

NumberNext ==
    \/ Tick
    \/ ValidateSubDelegationScopeCall
    \/ ValidateTransferCall

SpecNumber == NumberInit /\ [][NumberNext]_vars

(***************************************************************************)
(* The scripts, run from a shell one at a time                             *)
(***************************************************************************)
\* the object a script serialises: the signed delegation with its salt as a
\* decimal string, _meta, and _chain.parent (absent: the empty sequence)
Serializable(signed, createdAt, parentHash, parent) ==
    [ delegate  |-> signed.delegate,
      delegator |-> signed.delegator,
      authority |-> signed.authority,
      caveats   |-> signed.caveats,
      salt      |-> NumToDec(signed.salt),
      signature |-> signed.signature,
      meta      |-> [ createdAt      |-> createdAt,
                      delegationHash |-> getDelegationHash(signed),
                      parentHash     |-> parentHash ],
      chain     |-> parent ]

\* { ...raw, salt: BigInt(raw.salt) }
RestoreSalt(raw) == [raw EXCEPT !.salt = BigIntDec(raw.salt)]

\* { ...parentDelegation, salt: parentDelegation.salt.toString() }
SaltToString(delegation) == [delegation EXCEPT !.salt = NumToDec(delegation.salt)]

RECURSIVE Depth(_)
\* how many delegations a file holds: itself and its _chain.parent ancestors
Depth(file) == IF file.chain = <<>> THEN 1 ELSE 1 + Depth(file.chain[1])

\* what a finished script leaves behind: its exit code, the validation errors
\* it printed, the delegation it signed, the JSON it printed instead of
\* writing, and the calls it made to the ledger client
Finished(cmd, exit, errors, signed, printed, ledger) ==
    [ cmd |-> cmd, exit |-> exit, errors |-> errors, signed |-> signed,
      printed |-> printed, ledger |-> ledger ]

\* what a script that read a delegation file and hashed the delegation leaves
\* behind besides: the file, typeof of the salt it handed to the hasher, the
\* hash it got, and the _meta.delegationHash of the file
WithHashed(finished, path, saltType, hash, raw) ==
    [x \in DOMAIN finished \cup {"hashed"} |->
        IF x = "hashed"
        THEN [ path |-> path, saltType |-> saltType, hash |-> hash,
               recorded |-> raw.meta.delegationHash ]
        ELSE finished[x]]

\* what a script leaves behind besides: what it was run with, the account of
\* PRIVATE_KEY, the delegation file it read, the parameters and Date.now()
WithInput(finished, input) ==
    [x \in DOMAIN finished \cup {"input"} |->
        IF x = "input" THEN input ELSE finished[x]]

\* the account is not the one the delegation names as its delegate
IsDelegate_Anyone(account, delegation) == TRUE

\* account.address.toLowerCase() === delegation.delegate.toLowerCase()
IsDelegate(account, delegation) ==
    ToLowerCase(account) = ToLowerCase(delegation.delegate)

\* writeFileSync(argv.output, ...) when --output is given
WriteOutput(output, serializable) ==
    IF output # "" THEN [files EXCEPT ![output] = <<serializable>>] ELSE files

\* console.log of the JSON when --output is not given
PrintOutput(output, serializable) ==
    IF output # "" THEN <<>> ELSE <<serializable>>

\* process.env: PRIVATE_KEY unset, or the key of an account
Envs(accounts) == { [PRIVATE_KEY |-> k] : k \in {<<>>} \cup { <<a>> : a \in accounts } }

\* the wallet owner runs create-delegation; the agents run the other scripts
OwnerEnvs == Envs({Alice})
AgentEnvs == Envs({Bob, Carol})

\* getClients(privateKey).account.address
AccountOf(env) == env.PRIVATE_KEY[1]

\* amounts and durations given on the command line
CliAmounts == { Num(0, <<>>), Num(1, <<>>), Num(2, <<>>) }
CliDurations == { Duration(0, "s"), Duration(1, "s"), Duration(2, "s") }

CreateDelegationArgvs ==
    { [delegate |-> d, amount |-> a, expiry |-> e, output |-> o] :
        d \in {Bob, ToLowerCase(Bob)}, a \in {Num(1, <<>>)},
        e \in {Duration(1, "s")},
        o \in {"", "delegation.json"} }

\* create-delegation.mjs
CreateDelegation ==
    /\ run = NoRun
    /\ \E env \in OwnerEnvs, argv \in CreateDelegationArgvs :
         IF env.PRIVATE_KEY = <<>>
         THEN /\ run' = Finished("create-delegation", 1, <<>>, <<>>, <<>>, <<>>)
              /\ files' = files
         ELSE LET account == AccountOf(env)
                  delegation ==
                      buildDelegation([ delegator     |-> account,
                                        delegate      |-> argv.delegate,
                                        amount        |-> argv.amount,
                                        expirySeconds |-> parseDuration(argv.expiry) ],
                                      clock)
                  signedDelegation == signDelegation(delegation, account)
                  serializable == Serializable(signedDelegation, clock, <<>>, <<>>)
              IN  /\ files' = WriteOutput(argv.output, serializable)
                  /\ run' = Finished("create-delegation", 0, <<>>, <<signedDelegation>>,
                                     PrintOutput(argv.output, serializable), <<>>)
    /\ UNCHANGED <<clock, call, demo>>

\* how far Date.now() may move between the scope check and the build
ClockAdvances == {0, MsPerSecond}

\* the parameters without the link to the parent
SubDelegationArgs_NoAuthority(account, subdelegate, parentHash, subDelegationParams) ==
    [ delegator     |-> account,
      delegate      |-> subdelegate,
      amount        |-> subDelegationParams.amount,
      expirySeconds |-> subDelegationParams.expirySeconds ]

\* the parameters create-subdelegation passes to buildDelegation
SubDelegationArgs(account, subdelegate, parentHash, subDelegationParams) ==
    [ delegator     |-> account,
      delegate      |-> subdelegate,
      authority     |-> parentHash,
      amount        |-> subDelegationParams.amount,
      expirySeconds |-> subDelegationParams.expirySeconds ]

\* create-subdelegation.mjs, given --parent, --subdelegate, --amount, --expiry
\* and --output: the scope is checked when Date.now() is clock and the
\* sub-delegation is built when it is clock + dt
CreateSubDelegation ==
    /\ run = NoRun
    /\ \E env \in AgentEnvs, parent \in Paths :
         /\ files[parent] # <<>>
         /\ Depth(files[parent][1]) < MaxDepth
         /\ LET Exit(errors, input) ==
                    /\ run' = WithInput(
                                  Finished("create-subdelegation", 1, errors,
                                           <<>>, <<>>, <<>>),
                                  input)
                    /\ UNCHANGED <<files, clock>>
                rawParent == files[parent][1]
                parentDelegation == RestoreSalt(rawParent)
            IN  IF env.PRIVATE_KEY = <<>>
                THEN Exit(<<>>, [parent |-> rawParent])
                ELSE IF ~IsDelegate(AccountOf(env), parentDelegation)
                THEN Exit(<<>>, [account |-> AccountOf(env), parent |-> rawParent])
                ELSE \E amount \in CliAmounts, expiry \in CliDurations :
                  LET account == AccountOf(env)
                      subDelegationParams ==
                          [ amount        |-> amount,
                            expirySeconds |-> parseDuration(expiry) ]
                      validation ==
                          validateSubDelegationScope(parentDelegation,
                                                     subDelegationParams, clock)
                      parentHash == getDelegationHash(parentDelegation)
                      input == [ account |-> account, parent |-> rawParent,
                                 params |-> subDelegationParams, ms |-> clock ]
                  IN  IF ~validation.valid
                      THEN Exit(validation.errors, input)
                      ELSE \E subdelegate \in {Carol}, dt \in ClockAdvances,
                              output \in {"", "subdelegation.json"} :
                        LET subDelegation ==
                                buildDelegation(
                                    SubDelegationArgs(account, subdelegate, parentHash,
                                                      subDelegationParams),
                                    clock + dt)
                            signedSubDelegation == signDelegation(subDelegation, account)
                            serializable ==
                                Serializable(signedSubDelegation, clock + dt,
                                             <<parentHash>>,
                                             <<SaltToString(parentDelegation)>>)
                        IN  /\ NowSeconds(clock + dt) <= StartSec + MaxAdvanceSec
                            /\ clock' = clock + dt
                            /\ files' = WriteOutput(output, serializable)
                            /\ run' = WithInput(
                                          WithHashed(
                                              Finished("create-subdelegation", 0, <<>>,
                                                       <<signedSubDelegation>>,
                                                       PrintOutput(output, serializable),
                                                       <<>>),
                                              parent, "bigint", parentHash, rawParent),
                                          input)
    /\ UNCHANGED <<call, demo>>

\* ERC-7579 single call mode: 32 zero bytes
SINGLE_CALL_MODE == [i \in 1..Uint256HexLen |-> 0]

\* encodeFunctionData of USDC transfer(to, amount)
TransferCalldata(to, amountWei) == [fn |-> "transfer", to |-> to, amount |-> amountWei]

\* encodeSingleExecution(target, value, data)
encodeSingleExecution(target, value, data) ==
    [target |-> target, value |-> value, data |-> data]

\* publicClient.simulateContract of DelegationManager.redeemDelegations
SimulateContract(permissionContext, executionCallData, account) ==
    [ fn                 |-> "simulateContract",
      address            |-> DELEGATION_FRAMEWORK.DelegationManager,
      functionName       |-> "redeemDelegations",
      permissionContexts |-> <<permissionContext>>,
      modes              |-> <<SINGLE_CALL_MODE>>,
      executionCallDatas |-> <<executionCallData>>,
      account            |-> account ]

\* the ledger client is asked although --dry-run is set
CallsLedger_IgnoreDryRun(dryRun, simulate) == simulate

\* the script gets past `if (argv.dryRun) return` and into `if (argv.simulate)`
CallsLedger(dryRun, simulate) == ~dryRun /\ simulate

\* execute-transfer.mjs, given --delegation, --to, --amount, --dry-run and
\* --simulate; simulationOk is the answer of the ledger client
ExecuteTransfer ==
    /\ run = NoRun
    /\ \E env \in AgentEnvs, path \in Paths :
         /\ files[path] # <<>>
         /\ LET rawDelegation == files[path][1]
                delegation == RestoreSalt(rawDelegation)
                Exit(code, errors, input) ==
                    run' = WithInput(
                               Finished("execute-transfer", code, errors, <<>>, <<>>,
                                        <<>>),
                               input)
            IN  IF env.PRIVATE_KEY = <<>>
                THEN Exit(1, <<>>, [delegation |-> delegation])
                ELSE IF ~IsDelegate(AccountOf(env), delegation)
                THEN Exit(1, <<>>, [account |-> AccountOf(env), delegation |-> delegation])
                ELSE \E to \in {Alice}, amount \in CliAmounts :
                  LET account == AccountOf(env)
                      validation == validateTransfer(delegation, to, amount, clock)
                      transferCalldata ==
                          TransferCalldata(to, ParseUnits(amount, USDC_DECIMALS))
                      executionCallData ==
                          encodeSingleExecution(USDC_ADDRESS, 0, transferCalldata)
                      permissionContext == buildPermissionContext(<<delegation>>)
                      ledgerCall ==
                          SimulateContract(permissionContext, executionCallData, account)
                      transfer == [ account |-> account, delegation |-> delegation,
                                    to |-> to, amount |-> amount, ms |-> clock ]
                  IN  IF ~validation.valid
                      THEN Exit(1, validation.errors, transfer)
                      ELSE \E dryRun \in BOOLEAN, simulate \in BOOLEAN :
                        LET input == [x \in DOMAIN transfer \cup {"dryRun", "simulate"} |->
                                         CASE x = "dryRun" -> dryRun
                                           [] x = "simulate" -> simulate
                                           [] OTHER -> transfer[x]]
                            Done(code, ledger) ==
                                LET finished ==
                                        WithInput(
                                            Finished("execute-transfer", code, <<>>,
                                                     <<>>, <<>>, ledger),
                                            input)
                                IN  run' = IF dryRun THEN finished
                                           ELSE WithHashed(finished, path, "bigint",
                                                           getDelegationHash(delegation),
                                                           rawDelegation)
                        IN  IF CallsLedger(dryRun, simulate)
                            THEN \E simulationOk \in BOOLEAN :
                                     Done(IF simulationOk THEN 0 ELSE 1, <<ledgerCall>>)
                            ELSE Done(0, <<>>)
    /\ UNCHANGED <<clock, call, files, demo>>

\* scripts/execute-transfer.mjs, the script that prints the transaction it
\* would submit: given --delegation, --to, --amount and --dry-run
ExecuteTransferPrinted ==
    /\ run = NoRun
    /\ \E env \in AgentEnvs, path \in Paths :
         /\ files[path] # <<>>
         /\ LET delegation == files[path][1]
                Exit(code, errors, input) ==
                    run' = WithInput(
                               Finished("execute-transfer", code, errors, <<>>, <<>>,
                                        <<>>),
                               input)
            IN  IF env.PRIVATE_KEY = <<>>
                THEN Exit(1, <<>>, [delegation |-> delegation])
                ELSE IF ~IsDelegate(AccountOf(env), delegation)
                THEN Exit(1, <<>>, [account |-> AccountOf(env), delegation |-> delegation])
                ELSE \E to \in {Alice}, amount \in CliAmounts :
                  LET validation == validateTransfer(delegation, to, amount, clock)
                      transfer == [ account |-> AccountOf(env), delegation |-> delegation,
                                    to |-> to, amount |-> amount, ms |-> clock ]
                  IN  IF ~validation.valid
                      THEN Exit(1, validation.errors, transfer)
                      ELSE \E dryRun \in BOOLEAN :
                             Exit(0, <<>>,
                                  [x \in DOMAIN transfer \cup {"dryRun"} |->
                                      IF x = "dryRun" THEN dryRun ELSE transfer[x]])
    /\ UNCHANGED <<clock, call, files, demo>>

\* the key of DELEGATION_FRAMEWORK whose address is the enforcer's, or Unknown
EnforcerName(enforcer) ==
    IF \E k \in DOMAIN DELEGATION_FRAMEWORK :
           ToLowerCase(DELEGATION_FRAMEWORK[k]) = ToLowerCase(enforcer)
    THEN (CHOOSE k \in DOMAIN DELEGATION_FRAMEWORK :
              ToLowerCase(DELEGATION_FRAMEWORK[k]) = ToLowerCase(enforcer))
    ELSE "Unknown"

\* the status lines check-scope prints for a TimestampEnforcer caveat, which it
\* reads as (afterThreshold, beforeThreshold)
TimestampStatus(terms, now) ==
    IF BigIntThrows(HexSlice(terms, 2, 34)) \/ BigIntThrows(HexSlice(terms, 34, 66))
    THEN <<"Could not decode terms">>
    ELSE LET afterThreshold == BigIntHex(HexSlice(terms, 2, 34))
             beforeThreshold == BigIntHex(HexSlice(terms, 34, 66))
             remaining == beforeThreshold - now
         IN  (IF afterThreshold > 0
              THEN IF now <= afterThreshold
                   THEN <<"Not yet active">> ELSE <<"Start time passed">>
              ELSE <<>>)
             \o (IF beforeThreshold > 0
                 THEN IF remaining > 0 THEN <<"Valid">> ELSE <<"EXPIRED">>
                 ELSE <<>>)
             \o (IF afterThreshold = 0 /\ beforeThreshold = 0
                 THEN <<"No time constraints (perpetual)">> ELSE <<>>)

\* the status lines check-scope prints for a caveat
CaveatStatus(caveat, now) ==
    LET enforcerName == EnforcerName(caveat.enforcer)
    IN  CASE enforcerName = "ERC20TransferAmountEnforcer" ->
                 IF BigIntThrows(HexSliceFrom(caveat.terms, 42))
                 THEN <<"Could not decode terms">> ELSE <<"Active">>
          [] enforcerName = "TimestampEnforcer" -> TimestampStatus(caveat.terms, now)
          [] enforcerName = "ValueLteEnforcer" ->
                 IF BigIntThrows(caveat.terms)
                 THEN <<"Could not decode terms">> ELSE <<"Active">>
          [] enforcerName = "RedeemerEnforcer" -> <<"Active">>
          [] OTHER -> <<"Custom enforcer">>

\* some caveat of the delegation names the enforcer
HasEnforcer(delegation, enforcer) ==
    \E i \in 1..Len(delegation.caveats) :
        ToLowerCase(delegation.caveats[i].enforcer) = ToLowerCase(enforcer)

\* what check-scope prints about a delegation when Date.now() is ms
ScopeReport(delegation, ms) ==
    [ hash          |-> getDelegationHash(delegation),
      type          |-> IF delegation.authority = ROOT_AUTHORITY
                        THEN "ROOT" ELSE "SUB-DELEGATION",
      caveats       |-> [i \in 1..Len(delegation.caveats) |->
                            [ name   |-> EnforcerName(delegation.caveats[i].enforcer),
                              status |-> CaveatStatus(delegation.caveats[i],
                                                      NowSeconds(ms)) ]],
      hasAmount     |-> HasEnforcer(delegation,
                                    DELEGATION_FRAMEWORK.ERC20TransferAmountEnforcer),
      hasExpiry     |-> HasEnforcer(delegation, DELEGATION_FRAMEWORK.TimestampEnforcer),
      hasValueLimit |-> HasEnforcer(delegation, DELEGATION_FRAMEWORK.ValueLteEnforcer) ]

\* check-scope.mjs, given --delegation
CheckScope ==
    /\ run = NoRun
    /\ \E path \in Paths :
         /\ files[path] # <<>>
         /\ LET raw == files[path][1]
                delegation == RestoreSalt(raw)
            IN  run' = WithInput(
                           WithHashed(
                               Finished("check-scope", 0, <<>>, <<>>,
                                        <<ScopeReport(delegation, clock)>>, <<>>),
                               path, "bigint", getDelegationHash(delegation), raw),
                           [delegation |-> delegation, ms |-> clock])
    /\ UNCHANGED <<clock, call, files, demo>>

\* the delegator runs revoke-delegation
DelegatorEnvs == Envs({Alice, Bob})

\* the struct revoke-delegation passes to disableDelegation
DelegationStruct(delegation) ==
    [ delegate  |-> delegation.delegate,
      delegator |-> delegation.delegator,
      authority |-> delegation.authority,
      caveats   |-> [i \in 1..Len(delegation.caveats) |->
                        EncodeCaveat(delegation.caveats[i])],
      salt      |-> delegation.salt,
      signature |-> delegation.signature ]

\* a check that also lets the delegate through
IsDelegator_OrDelegate(account, delegation) ==
    \/ ToLowerCase(account) = ToLowerCase(delegation.delegator)
    \/ ToLowerCase(account) = ToLowerCase(delegation.delegate)

\* account.address.toLowerCase() === delegation.delegator.toLowerCase()
IsDelegator(account, delegation) ==
    ToLowerCase(account) = ToLowerCase(delegation.delegator)

\* revoke-delegation.mjs, given --delegation, --check and --execute; submitted
\* is whether the ledger client accepted the transaction
RevokeDelegation ==
    /\ run = NoRun
    /\ \E env \in DelegatorEnvs, path \in Paths :
         /\ files[path] # <<>>
         /\ LET raw == files[path][1]
                delegation == RestoreSalt(raw)
                delegationHash == getDelegationHash(delegation)
                Exit(input) ==
                    run' = WithInput(
                               Finished("revoke-delegation", 1, <<>>, <<>>, <<>>, <<>>),
                               input)
            IN  IF env.PRIVATE_KEY = <<>>
                THEN Exit([delegation |-> delegation])
                ELSE IF ~IsDelegator(AccountOf(env), delegation)
                THEN Exit([account |-> AccountOf(env), delegation |-> delegation])
                ELSE \E check \in BOOLEAN, execute \in BOOLEAN :
                  LET Done(code, ledger) ==
                          run' = WithInput(
                                     WithHashed(
                                         Finished("revoke-delegation", code, <<>>, <<>>,
                                                  <<>>, ledger),
                                         path, "bigint", delegationHash, raw),
                                     [ account |-> AccountOf(env),
                                       delegation |-> delegation,
                                       check |-> check, execute |-> execute ])
                      reads ==
                          IF check
                          THEN <<[ functionName |-> "disabledDelegations",
                                   args |-> <<delegationHash>> ]>>
                          ELSE <<>>
                      write == [ functionName |-> "disableDelegation",
                                 args |-> <<DelegationStruct(delegation)>> ]
                  IN  IF ~execute
                      THEN Done(0, reads)
                      ELSE \E submitted \in BOOLEAN :
                               Done(IF submitted THEN 0 ELSE 1, reads \o <<write>>)
    /\ UNCHANGED <<clock, call, files, demo>>

\* a script that ended in an exception main().catch(console.error) printed
Exit0 == Finished("create-subdelegation", 0, <<>>, <<>>, <<>>, <<>>)

\* what encodeAbiParameters makes of a uint256 given as a decimal string: the
\* number it denotes, or a TypeError
StringSaltOutcomes == {"coerced", "TypeError"}

\* scripts/create-subdelegation.mjs, the script that prints the sub-delegation:
\* given --parent, --subdelegate, --amount and --expiry
CreateSubDelegationPrinted ==
    /\ run = NoRun
    /\ \E env \in AgentEnvs, parent \in Paths :
         /\ files[parent] # <<>>
         /\ LET Exit(code, errors, input) ==
                    run' = WithInput(
                               Finished("create-subdelegation", code, errors,
                                        <<>>, <<>>, <<>>),
                               input)
                parentDelegation == files[parent][1]
            IN  IF env.PRIVATE_KEY = <<>>
                THEN Exit(1, <<>>, [parent |-> parentDelegation])
                ELSE IF ~IsDelegate(AccountOf(env), parentDelegation)
                THEN Exit(1, <<>>, [ account |-> AccountOf(env),
                                     parent |-> parentDelegation ])
                ELSE \E amount \in CliAmounts, expiry \in CliDurations :
                  LET account == AccountOf(env)
                      subDelegationParams ==
                          [ amount        |-> amount,
                            expirySeconds |-> parseDuration(expiry) ]
                      validation ==
                          validateSubDelegationScope(parentDelegation,
                                                     subDelegationParams, clock)
                      input == [ account |-> account, parent |-> parentDelegation,
                                 params |-> subDelegationParams, ms |-> clock ]
                  IN  IF ~validation.valid
                      THEN Exit(1, validation.errors, input)
                      ELSE \E outcome \in StringSaltOutcomes :
                        IF outcome = "TypeError"
                        THEN run' = WithInput(
                                        WithHashed(Exit0, parent, "string",
                                                   <<"TypeError">>, parentDelegation),
                                        input)
                        ELSE LET parentHash ==
                                     getDelegationHash(RestoreSalt(parentDelegation))
                                 subDelegation ==
                                     buildDelegation(
                                         SubDelegationArgs(account, Carol, parentHash,
                                                           subDelegationParams),
                                         clock)
                                 signedSubDelegation ==
                                     signDelegation(subDelegation, account)
                             IN  run' = WithInput(
                                            WithHashed(
                                                Finished("create-subdelegation", 0,
                                                         <<>>, <<signedSubDelegation>>,
                                                         <<>>, <<>>),
                                                parent, "string", parentHash,
                                                parentDelegation),
                                            input)
    /\ UNCHANGED <<clock, call, files, demo>>

\* the script's process has ended and the shell takes the next command
Prompt ==
    /\ run # NoRun
    /\ run' = NoRun
    /\ UNCHANGED <<clock, call, files, demo>>

Init ==
    /\ clock = StartMs
    /\ call = NoCall
    /\ files = NoFiles
    /\ run = NoRun
    /\ demo = Mounted

Next ==
    \/ Tick
    \/ CreateDelegation
    \/ CreateSubDelegation
    \/ ExecuteTransfer
    \/ CheckScope
    \/ RevokeDelegation
    \/ CreateSubDelegationPrinted
    \/ ExecuteTransferPrinted
    \/ Prompt

Spec == Init /\ [][Next]_vars

(***************************************************************************)
(* What a caveat means, read off the way it was encoded                    *)
(***************************************************************************)
IsAmountCaveat(c) == c.enforcer.id = "ERC20TransferAmountEnforcer"
IsTimeCaveat(c) == c.enforcer.id = "TimestampEnforcer"

LimitValues == { ParseUnits(a, USDC_DECIMALS) : a \in LimitAmounts }

\* the limit an amount caveat was encoded with
LimitOf(c) ==
    CHOOSE n \in LimitValues :
        c.terms = encodeERC20TransferAmountTerms(USDC_ADDRESS, n)

\* the threshold and the mode a timestamp caveat was encoded with
TimeOf(c) ==
    CHOOSE p \in Thresholds \X Modes : c.terms = encodeTimestampTerms(p[1], p[2])

AmountCaveatsOf(d) == {i \in 1..Len(d.caveats) : IsAmountCaveat(d.caveats[i])}
TimeCaveatsOf(d) == {i \in 1..Len(d.caveats) : IsTimeCaveat(d.caveats[i])}

\* the delegation has one amount caveat, and it is the i-th caveat
OnlyAmountCaveat(d, i) == AmountCaveatsOf(d) = {i}

\* the delegation has one timestamp caveat, the i-th, and it is an expiry
OnlyExpiryCaveat(d, i) ==
    /\ TimeCaveatsOf(d) = {i}
    /\ TimeOf(d.caveats[i])[2] = "before"

ErrorsWith(errors, msg) == {k \in 1..Len(errors) : errors[k].msg = msg}

ScopeReturned == call.fn = "validateSubDelegationScope" /\ call.state = "returned"
TransferReturned == call.fn = "validateTransfer" /\ call.state = "returned"

\* the child amount in minor units, and the child expiry timestamp
ChildAmount == ParseUnits(call.params.amount, USDC_DECIMALS)
ChildExpiry == NowSeconds(call.ms) + call.params.expirySeconds

(***************************************************************************)
(* C2. Amount narrowing monotonicity: against a parent whose amount-limit  *)
(* caveat has limit P, validateSubDelegationScope reports no amount        *)
(* violation if and only if the child amount C, in minor units, is at most *)
(* P; C = P is accepted and C = P + 1 is rejected.                         *)
(***************************************************************************)
C2_AmountMonotonic ==
    ScopeReturned =>
        \A i \in 1..Len(call.delegation.caveats) :
            OnlyAmountCaveat(call.delegation, i) =>
                ( ErrorsWith(call.ret.errors, AmountScopeMsg) = {}
                  <=> ChildAmount <= LimitOf(call.delegation.caveats[i]) )

\* the smallest excess, C = P + 1, is rejected
C2_Witness ==
    /\ ScopeReturned
    /\ \E i \in 1..Len(call.delegation.caveats) :
         /\ OnlyAmountCaveat(call.delegation, i)
         /\ ChildAmount = LimitOf(call.delegation.caveats[i]) + 1
    /\ ErrorsWith(call.ret.errors, AmountScopeMsg) # {}

(***************************************************************************)
(* C3. Expiry narrowing monotonicity: against a parent whose expiry caveat *)
(* is at timestamp E, validateSubDelegationScope called at time now with   *)
(* expirySeconds S reports no expiry violation if and only if              *)
(* now + S <= E.                                                           *)
(***************************************************************************)
C3_ExpiryMonotonic ==
    ScopeReturned =>
        \A i \in 1..Len(call.delegation.caveats) :
            OnlyExpiryCaveat(call.delegation, i) =>
                ( ErrorsWith(call.ret.errors, ExpiryScopeMsg) = {}
                  <=> ChildExpiry <= TimeOf(call.delegation.caveats[i])[1] )

(***************************************************************************)
(* C4. Transfer amount enforcement: validateTransfer reports an amount     *)
(* violation if and only if some amount-limit caveat of the delegation has *)
(* a limit L below the transfer amount A; A = L is accepted, and every     *)
(* amount-limit caveat is checked: one violation per exceeded caveat.      *)
(***************************************************************************)
TransferAmount == ParseUnits(call.amount, USDC_DECIMALS)

ExceededCaveats ==
    {i \in AmountCaveatsOf(call.delegation) :
        TransferAmount > LimitOf(call.delegation.caveats[i])}

C4_TransferAmount ==
    TransferReturned =>
        /\ ErrorsWith(call.ret.errors, AmountLimitMsg) # {} <=> ExceededCaveats # {}
        /\ Cardinality(ErrorsWith(call.ret.errors, AmountLimitMsg))
             = Cardinality(ExceededCaveats)

\* the second amount caveat is the one exceeded, and it is reported
C4_Witness ==
    /\ TransferReturned
    /\ Len(call.delegation.caveats) >= 2
    /\ ExceededCaveats = {2}
    /\ AmountCaveatsOf(call.delegation) = {1, 2}
    /\ ErrorsWith(call.ret.errors, AmountLimitMsg) # {}

(***************************************************************************)
(* C5. Temporal sensitivity: for a delegation with a time-window caveat,   *)
(* validateTransfer called at time t reports the transfer invalid when     *)
(* t >= notAfter (an expiry caveat's threshold) and when t < notBefore (a  *)
(* start-time caveat's threshold), and reports no time violation inside    *)
(* the window.                                                             *)
(***************************************************************************)
OutsideWindow(c, t) ==
    \/ TimeOf(c)[2] = "before" /\ t >= TimeOf(c)[1]
    \/ TimeOf(c)[2] = "after" /\ t < TimeOf(c)[1]

C5_TemporalSensitivity ==
    TransferReturned =>
        /\ (\E i \in TimeCaveatsOf(call.delegation) :
               OutsideWindow(call.delegation.caveats[i], NowSeconds(call.ms)))
           => ~call.ret.valid
        /\ (\A i \in TimeCaveatsOf(call.delegation) :
               ~OutsideWindow(call.delegation.caveats[i], NowSeconds(call.ms)))
           => ErrorsWith(call.ret.errors, ExpiredMsg) = {}

(***************************************************************************)
(* C6. The scope validator reports every violation in one call: the error  *)
(* list has one entry for each dimension (amount, expiry) in which the     *)
(* child exceeds the parent, two when it exceeds in both, none when it     *)
(* exceeds in neither.                                                     *)
(***************************************************************************)
C6_ScopeReportsAll ==
    ScopeReturned =>
        \A i, j \in 1..Len(call.delegation.caveats) :
            ( OnlyAmountCaveat(call.delegation, i)
              /\ OnlyExpiryCaveat(call.delegation, j) ) =>
                LET overAmount == ChildAmount > LimitOf(call.delegation.caveats[i])
                    overExpiry == ChildExpiry > TimeOf(call.delegation.caveats[j])[1]
                IN  /\ Len(call.ret.errors)
                         = (IF overAmount THEN 1 ELSE 0) + (IF overExpiry THEN 1 ELSE 0)
                    /\ overAmount <=> ErrorsWith(call.ret.errors, AmountScopeMsg) # {}
                    /\ overExpiry <=> ErrorsWith(call.ret.errors, ExpiryScopeMsg) # {}

(***************************************************************************)
(* C7. The transfer validator reports every violation in one call: when    *)
(* an amount-limit caveat is exceeded and an expiry caveat has expired,    *)
(* one call returns both violations, whatever the order of the caveats:    *)
(* one entry per violated caveat.                                          *)
(***************************************************************************)
ExpiredCaveats ==
    {i \in TimeCaveatsOf(call.delegation) :
        /\ TimeOf(call.delegation.caveats[i])[2] = "before"
        /\ NowSeconds(call.ms) >= TimeOf(call.delegation.caveats[i])[1]}

C7_TransferReportsAll ==
    (TransferReturned /\ ExceededCaveats # {} /\ ExpiredCaveats # {}) =>
        /\ ErrorsWith(call.ret.errors, AmountLimitMsg) # {}
        /\ ErrorsWith(call.ret.errors, ExpiredMsg) # {}
        /\ Len(call.ret.errors)
             = Cardinality(ExceededCaveats) + Cardinality(ExpiredCaveats)

\* the expired caveat comes first, the exceeded amount caveat second
C7_Witness ==
    /\ TransferReturned
    /\ ExpiredCaveats = {1}
    /\ ExceededCaveats = {2}
    /\ Len(call.ret.errors) = 2

(***************************************************************************)
(* C8. Chain integrity on assembly: encodePermissionContext and            *)
(* buildPermissionContext fail with a chain-integrity error on every chain *)
(* in which some record's authority is not getDelegationHash of the record *)
(* that follows it, so no permission context is returned for such a chain. *)
(***************************************************************************)
ChainReturned ==
    /\ call.fn \in {"encodePermissionContext", "buildPermissionContext"}
    /\ call.state = "returned"

ChainIntegrity(chain) ==
    \A i \in 1..(Len(chain) - 1) : chain[i].authority = getDelegationHash(chain[i + 1])

C8_ChainIntegrity ==
    (ChainReturned /\ ~ChainIntegrity(call.chain)) => call.ret.threw

(***************************************************************************)
(* The delegation files the scripts have produced                          *)
(***************************************************************************)
Written == {p \in Paths : files[p] # <<>>}

\* the sub-delegation files on disk: the ones that carry _chain.parent
SubDelegationPaths == {p \in Written : files[p][1].chain # <<>>}

ClockSeconds == StartSec .. (StartSec + MaxAdvanceSec)

\* the limits and the expiry timestamps a delegation's caveats encode
AmountLimitsOf(d) ==
    {DecodeAmountLimit(d.caveats[i].terms) : i \in AmountCaveatsOf(d)}

ExpiriesOf(d) ==
    {DecodeThreshold(d.caveats[i].terms) :
        i \in {j \in TimeCaveatsOf(d) : DecodeMode(d.caveats[j].terms) = 0}}

\* every transfer accepted under the sub-delegation is accepted under the parent
AcceptedUnderParent(sub, parent) ==
    \A amount \in CliAmounts, t \in ClockSeconds :
        validateTransfer(sub, Alice, amount, t * MsPerSecond).valid
            => validateTransfer(parent, Alice, amount, t * MsPerSecond).valid

(***************************************************************************)
(* The demo app: useDelegationDemo and the buttons of ActionPanel.  A      *)
(* click runs its handler up to the first await and React renders before   *)
(* the next event; each await delay(..) ends the step, and the handler     *)
(* goes on in a later one.  The fields expiry, signature, timestamp and to *)
(* of the stored objects are read by no guard and are left out.            *)
(***************************************************************************)
DEMO_ADDRESSES ==
    [ human |-> "human", agentA |-> "agentA", agentB |-> "agentB",
      agentC |-> "agentC", agentD |-> "agentD", recipient |-> "recipient" ]

\* the values of '0x' + Array.from({length: 64}, () => Math.random ...)
Hashes == {"0xa", "0xb"}

\* amount of the root delegation
RootAmount == 1000

subAgents ==
    << [label |-> "B", address |-> DEMO_ADDRESSES.agentB, amount |-> 300],
       [label |-> "C", address |-> DEMO_ADDRESSES.agentC, amount |-> 300],
       [label |-> "D", address |-> DEMO_ADDRESSES.agentD, amount |-> 300] >>

\* const amounts = [50, 75, 100], from index 1
amounts == <<50, 75, 100>>

\* the argument of a setState call, applied to the state before it
ApplyUpdate(prev, update) ==
    CASE update.op = "loading" -> [prev EXCEPT !.loading = TRUE]
      [] update.op = "root" ->
             [prev EXCEPT !.step = 1, !.loading = FALSE,
                          !.rootDelegation = update.rootDelegation]
      [] update.op = "subs" ->
             [prev EXCEPT !.step = 2, !.loading = FALSE,
                          !.subDelegations = update.subDelegations]
      [] update.op = "transfer" ->
             [prev EXCEPT !.loading = FALSE,
                          !.transfers[update.index + 1] = update.transfer]
      [] update.op = "initialState" -> initialState

\* the state after the queued setState calls, in the order they were made
RECURSIVE ApplyQueue(_, _)
ApplyQueue(prev, queue) ==
    IF queue = <<>> THEN prev
    ELSE ApplyQueue(ApplyUpdate(prev, Head(queue)), Tail(queue))

\* setState in a click handler: React renders when the handler returns
SetStateSync(d, update) ==
    [d EXCEPT !.state = ApplyQueue(d.state, Append(d.queue, update)),
              !.queue = <<>>]

\* setState after an await: the update waits for the next render
SetState(d, update) == [d EXCEPT !.queue = Append(@, update)]

\* addLog called n times
AddLog(d, n) == [d EXCEPT !.logs = @ + n]

\* the handler goes to sleep on a delay, or wakes up and goes on, or returns
Await(d, task) == [d EXCEPT !.tasks = Append(@, task)]
Resume(d, i, task) == [d EXCEPT !.tasks[i] = task]
Return(d, i) ==
    [d EXCEPT !.tasks = SubSeq(@, 1, i - 1) \o SubSeq(@, i + 1, Len(@))]

\* transfers?.[index]?.amount > 0
hasTransferred(state, index) ==
    /\ state.transfers[index + 1] # null
    /\ state.transfers[index + 1].amount > 0

\* the buttons' disabled attributes
RootDisabled(state) == state.step >= 1 \/ state.loading
SubDisabled(state) == state.step < 1 \/ state.step >= 2 \/ state.loading
TransferDisabled_IgnoreLoading(state, index) ==
    state.step < 2 \/ hasTransferred(state, index)
TransferDisabled(state, index) ==
    state.step < 2 \/ hasTransferred(state, index) \/ state.loading
ResetDisabled(state) == state.step = 0 \/ state.loading

\* a pending render happens
Render ==
    /\ demo.queue # <<>>
    /\ demo' = [demo EXCEPT !.state = ApplyQueue(demo.state, demo.queue),
                            !.queue = <<>>]
    /\ UNCHANGED <<clock, call, files, run>>

\* click on Create Root Delegation: createRootDelegation up to await delay(800)
ClickCreateRootDelegation ==
    /\ ~RootDisabled(demo.state)
    /\ demo' = Await(AddLog(SetStateSync(demo, [op |-> "loading"]), 1),
                     [fn |-> "createRootDelegation", pc |-> 1])
    /\ UNCHANGED <<clock, call, files, run>>

\* createRootDelegation goes on after a delay
CreateRootDelegationResume ==
    /\ \E i \in 1..Len(demo.tasks) :
         LET task == demo.tasks[i]
         IN  /\ task.fn = "createRootDelegation"
             /\ CASE task.pc = 1 ->
                       \E delegationHash \in Hashes :
                           demo' = Resume(AddLog(demo, 4), i,
                                          [fn |-> task.fn, pc |-> 2,
                                           delegationHash |-> delegationHash])
                  [] task.pc = 2 ->
                       demo' = Resume(AddLog(demo, 1), i, [task EXCEPT !.pc = 3])
                  [] task.pc = 3 ->
                       LET rootDelegation ==
                               [ delegator |-> DEMO_ADDRESSES.human,
                                 delegate  |-> DEMO_ADDRESSES.agentA,
                                 amount    |-> RootAmount,
                                 hash      |-> task.delegationHash ]
                       IN  demo' = Return(
                                       SetState(AddLog(demo, 5),
                                                [ op |-> "root",
                                                  rootDelegation |-> rootDelegation ]),
                                       i)
    /\ UNCHANGED <<clock, call, files, run>>

\* click on Create Sub-Delegations: createSubDelegations up to await delay(600);
\* the handler keeps the state.rootDelegation of the render it was made in
ClickCreateSubDelegations ==
    /\ ~SubDisabled(demo.state)
    /\ demo' = Await(AddLog(SetStateSync(demo, [op |-> "loading"]), 2),
                     [ fn |-> "createSubDelegations", pc |-> 1,
                       rootDelegation |-> demo.state.rootDelegation,
                       subDelegations |-> <<>> ])
    /\ UNCHANGED <<clock, call, files, run>>

\* createSubDelegations goes on after a delay: pc 1 is delay(600), pc 2k the
\* delay(300) and pc 2k + 1 the delay(400) of the k-th sub-agent
CreateSubDelegationsResume ==
    /\ \E i \in 1..Len(demo.tasks) :
         LET task == demo.tasks[i]
             k == task.pc \div 2
         IN  /\ task.fn = "createSubDelegations"
             /\ IF task.pc % 2 = 0
                THEN \E hash \in Hashes :
                       LET agent == subAgents[k]
                           subDelegation ==
                               [ delegator  |-> DEMO_ADDRESSES.agentA,
                                 delegate   |-> agent.address,
                                 amount     |-> agent.amount,
                                 hash       |-> hash,
                                 parentHash |-> task.rootDelegation.hash ]
                       IN  demo' = Resume(AddLog(demo, 2), i,
                                          [task EXCEPT
                                              !.pc = @ + 1,
                                              !.subDelegations =
                                                  Append(@, subDelegation)])
                ELSE IF k < Len(subAgents)
                THEN demo' = Resume(AddLog(demo, 1), i, [task EXCEPT !.pc = @ + 1])
                ELSE demo' = Return(
                                 SetState(AddLog(demo, 5),
                                          [ op |-> "subs",
                                            subDelegations |-> task.subDelegations ]),
                                 i)
    /\ UNCHANGED <<clock, call, files, run>>

\* click on Execute Transfer (Agent B, C or D): executeTransfer(label, index)
\* up to await delay(500)
ClickExecuteTransfer ==
    /\ \E index \in 0..2 :
         /\ ~TransferDisabled(demo.state, index)
         /\ demo' = Await(AddLog(SetStateSync(demo, [op |-> "loading"]), 3),
                          [ fn |-> "executeTransfer", pc |-> 1,
                            agentLabel |-> subAgents[index + 1].label,
                            index |-> index,
                            amount |-> amounts[index + 1] ])
    /\ UNCHANGED <<clock, call, files, run>>

\* executeTransfer goes on after a delay
ExecuteTransferResume ==
    /\ \E i \in 1..Len(demo.tasks) :
         LET task == demo.tasks[i]
         IN  /\ task.fn = "executeTransfer"
             /\ CASE task.pc = 1 ->
                       demo' = Resume(AddLog(demo, 1), i, [task EXCEPT !.pc = 2])
                  [] task.pc = 2 ->
                       demo' = Resume(AddLog(demo, 4), i, [task EXCEPT !.pc = 3])
                  [] task.pc = 3 ->
                       demo' = Resume(AddLog(demo, 2), i, [task EXCEPT !.pc = 4])
                  [] task.pc = 4 ->
                       \E txHash \in Hashes :
                           demo' = Resume(AddLog(demo, 1), i,
                                          [ fn |-> task.fn, pc |-> 5,
                                            agentLabel |-> task.agentLabel,
                                            index |-> task.index,
                                            amount |-> task.amount,
                                            txHash |-> txHash ])
                  [] task.pc = 5 ->
                       LET update ==
                               [ op |-> "transfer", index |-> task.index,
                                 transfer |-> [ amount |-> task.amount,
                                                txHash |-> task.txHash ] ]
                           stored ==
                               [demo EXCEPT !.recorded[task.index + 1] = @ + 1]
                       IN  demo' = Return(SetState(AddLog(stored, 4), update), i)
    /\ UNCHANGED <<clock, call, files, run>>

\* click on Reset Demo: reset
ClickReset ==
    /\ ~ResetDisabled(demo.state)
    /\ demo' = [SetStateSync(demo, [op |-> "initialState"]) EXCEPT
                   !.logs = 1, !.recorded = <<0, 0, 0>>]
    /\ UNCHANGED <<clock, call, files, run>>

\* subDelegations.reduce((sum, sub) => sum + (sub?.amount || 0), 0)
RECURSIVE Sum(_)
Sum(subDelegations) ==
    IF subDelegations = <<>> THEN 0
    ELSE Head(subDelegations).amount + Sum(Tail(subDelegations))

\* Agent A's remaining allowance, as DelegationTree shows it
calculateAgentARemaining(rootDelegation, subDelegations) ==
    IF rootDelegation = null THEN 0
    ELSE IF Len(subDelegations) = 0 THEN rootDelegation.amount
    ELSE rootDelegation.amount - Sum(subDelegations)

\* a sub-agent's remaining allowance, as DelegationTree shows it
SubAgentRemaining(state, idx) ==
    (IF idx + 1 <= Len(state.subDelegations)
     THEN state.subDelegations[idx + 1].amount ELSE 0)
    - (IF state.transfers[idx + 1] # null
       THEN state.transfers[idx + 1].amount ELSE 0)

DemoInit ==
    /\ clock = StartMs
    /\ call = NoCall
    /\ files = NoFiles
    /\ run = NoRun
    /\ demo = Mounted

DemoNext ==
    \/ Render
    \/ ClickCreateRootDelegation
    \/ CreateRootDelegationResume
    \/ ClickCreateSubDelegations
    \/ CreateSubDelegationsResume
    \/ ClickExecuteTransfer
    \/ ExecuteTransferResume
    \/ ClickReset

SpecDemo == DemoInit /\ [][DemoNext]_vars

(***************************************************************************)
(* C1. Scope narrowing end to end: every sub-delegation create-subdelegation *)
(* writes from a parent with an amount-limit caveat and an expiry caveat   *)
(* has an amount-limit caveat with a limit at most the parent's and an     *)
(* expiry caveat with a timestamp at most the parent's, so every transfer  *)
(* validateTransfer accepts under it is accepted under the parent; for     *)
(* every requested amount and expiry, 0 and '0s' included, and every clock *)
(* advance between the scope check and the build.                          *)
(***************************************************************************)
C1_ScopeNarrowing ==
    \A p \in SubDelegationPaths :
        LET sub == RestoreSalt(files[p][1])
            parent == RestoreSalt(files[p][1].chain[1])
        IN  (AmountLimitsOf(parent) # {} /\ ExpiriesOf(parent) # {}) =>
                /\ \E c \in AmountLimitsOf(sub) : \A l \in AmountLimitsOf(parent) : c <= l
                /\ \E e \in ExpiriesOf(sub) : \A x \in ExpiriesOf(parent) : e <= x
                /\ AcceptedUnderParent(sub, parent)

(***************************************************************************)
(* C9. Chain completeness and order: the permission context execute-transfer *)
(* passes to the ledger client ends with a delegation whose authority is   *)
(* ROOT_AUTHORITY and each record's authority is the hash of the record    *)
(* after it; a leaf that is not a root is never presented alone.           *)
(***************************************************************************)
DecodeSalt(encoded) == [encoded EXCEPT !.salt = BigIntDec(encoded.salt)]

LeafToRoot(context) ==
    /\ context[Len(context)].authority = ROOT_AUTHORITY
    /\ \A i \in 1..(Len(context) - 1) :
           context[i].authority = getDelegationHash(DecodeSalt(context[i + 1]))

C9_ChainComplete ==
    (run.cmd = "execute-transfer" /\ run.ledger # <<>>) =>
        \A k \in 1..Len(run.ledger) :
            LeafToRoot(run.ledger[k].permissionContexts[1].hex)

(***************************************************************************)
(* C10. Authority linkage: every delegation create-delegation produced has *)
(* authority ROOT_AUTHORITY, and every sub-delegation create-subdelegation *)
(* produced has as authority getDelegationHash of its parent with the salt *)
(* restored to a number and as delegator the address of the parent's       *)
(* delegate, and so has its parent, up to a root: following authority      *)
(* from any file reaches a root within MaxDepth steps.                     *)
(***************************************************************************)
RECURSIVE AuthorityLinked(_)
AuthorityLinked(file) ==
    IF file.chain = <<>>
    THEN file.authority = ROOT_AUTHORITY
    ELSE /\ file.authority = getDelegationHash(RestoreSalt(file.chain[1]))
         /\ file.authority # ROOT_AUTHORITY
         /\ file.delegator.id = file.chain[1].delegate.id
         /\ AuthorityLinked(file.chain[1])

C10_AuthorityLinkage ==
    /\ \A p \in Written : AuthorityLinked(files[p][1]) /\ Depth(files[p][1]) <= MaxDepth
    /\ run.cmd \in {"create-delegation", "create-subdelegation"}
           => \A k \in 1..Len(run.printed) : AuthorityLinked(run.printed[k])

\* a sub-delegation is on disk whose parent names its delegate in lower case
C10_Witness ==
    \E p \in SubDelegationPaths :
        /\ files[p][1].chain[1].delegate.lc
        /\ ~files[p][1].delegator.lc
        /\ files[p][1].chain[1].authority = ROOT_AUTHORITY
        /\ files[p][1].authority = getDelegationHash(RestoreSalt(files[p][1].chain[1]))

(***************************************************************************)
(* The delegations one process has built                                   *)
(***************************************************************************)
Built == IF call.fn = "buildDelegation" THEN call.built ELSE <<>>

IsValueCaveat(c) == c.enforcer.id = "ValueLteEnforcer"

\* value ceiling 1, amount limit 2, time window 3, anything else 0
KindRank(c) ==
    IF IsValueCaveat(c) THEN 1
    ELSE IF IsAmountCaveat(c) THEN 2
    ELSE IF IsTimeCaveat(c) THEN 3
    ELSE 0

(***************************************************************************)
(* C11. Salt uniqueness: any two delegations buildDelegation returns in    *)
(* one process carry different salts, strictly increasing from call to     *)
(* call, also when both calls fall in the same millisecond, so that two    *)
(* builds of the same fields never have the same delegation hash.          *)
(***************************************************************************)
C11_SaltUnique ==
    \A i, j \in 1..Len(Built) :
        i < j => /\ Built[i].salt < Built[j].salt
                 /\ getDelegationHash(Built[i]) # getDelegationHash(Built[j])

C13_AmountCaveat ==
    \A k \in 1..Len(Built) :
        LET amount == call.params.amount
            limits == AmountCaveatsOf(Built[k])
        IN  IF amount = Undefined
            THEN limits = {}
            ELSE /\ Cardinality(limits) = 1
                 /\ \A i \in limits :
                        /\ DecodeAmountLimit(Built[k].caveats[i].terms)
                               = ParseUnits(amount, USDC_DECIMALS)
                        /\ HexSlice(Built[k].caveats[i].terms, 2, 42) = USDC_ADDRESS

(***************************************************************************)
(* C14. Time-window layout agreement: in the terms buildDelegation writes  *)
(* for an expiry the first 16 bytes (the lower bound) are 0 and the last   *)
(* 16 bytes (the upper bound) are the expiry timestamp, and check-scope    *)
(* reads the two fields as validateTransfer does: at every clock time      *)
(* check-scope reports a written delegation EXPIRED exactly when           *)
(* validateTransfer reports 'Delegation has expired' for it.               *)
(***************************************************************************)
\* the file check-scope has just reported on
ReportedFile ==
    files[CHOOSE p \in Written :
              getDelegationHash(RestoreSalt(files[p][1])) = run.printed[1].hash][1]

ReportsExpired(report) ==
    \E i \in 1..Len(report.caveats) :
        \E k \in 1..Len(report.caveats[i].status) :
            report.caveats[i].status[k] = "EXPIRED"

C14_LayoutAgreement ==
    /\ \A p \in Written : \A i \in TimeCaveatsOf(files[p][1]) :
           /\ BigIntHex(HexSlice(files[p][1].caveats[i].terms, 2, 34)) = 0
           /\ BigIntHex(HexSlice(files[p][1].caveats[i].terms, 34, 66)) > 0
    /\ run.cmd = "check-scope" =>
           ( ReportsExpired(run.printed[1])
             <=> ErrorsWith(validateTransfer(RestoreSalt(ReportedFile), Alice,
                                             Num(0, <<>>), clock).errors,
                            ExpiredMsg) # {} )

(***************************************************************************)
(* C15. Decode rejects wrong length: when validateTransfer or              *)
(* validateSubDelegationScope decodes a recognized caveat whose terms are  *)
(* shorter or longer than the length of its kind (52 bytes for an amount   *)
(* limit, 32 bytes for a time window), the call ends in a decode error; it *)
(* never returns a verdict computed from such terms.                       *)
(***************************************************************************)
TermsBytes(caveat) == Len(caveat.terms) \div 2

WrongLength(caveat) ==
    \/ IsAmountCaveat(caveat) /\ TermsBytes(caveat) # AmountTermsLen
    \/ IsTimeCaveat(caveat) /\ TermsBytes(caveat) # TimestampTermsLen

\* the caveats whose terms the returned call decoded
DecodedCaveats ==
    IF call.state # "returned" THEN {}
    ELSE LET caveats == call.delegation.caveats
         IN  CASE call.fn = "validateTransfer" ->
                      { caveats[i] : i \in { j \in 1..Len(caveats) :
                            IsAmountCaveat(caveats[j]) \/ IsTimeCaveat(caveats[j]) } }
               [] call.fn = "validateSubDelegationScope" ->
                      { caveats[i] : i \in
                          { j \in AmountCaveatsOf(call.delegation) :
                                Truthy(call.params.amount) }
                          \cup { j \in TimeCaveatsOf(call.delegation) :
                                   call.params.expirySeconds # 0 } }
               [] OTHER -> {}

\* the call ended in an error about the decoding, thrown or listed
DecodeFailed(ret) ==
    IF "threw" \in DOMAIN ret THEN TRUE
    ELSE \E k \in 1..Len(ret.errors) :
             ret.errors[k].msg \notin
                 {AmountScopeMsg, ExpiryScopeMsg, AmountLimitMsg, ExpiredMsg}

C15_DecodeRejectsWrongLength ==
    (\E c \in DecodedCaveats : WrongLength(c)) => DecodeFailed(call.ret)

(***************************************************************************)
(* C16. Encode and decode are inverses: the limit the validators decode    *)
(* from encodeERC20TransferAmountTerms(token, a) is a, for every token and *)
(* every amount, 0 included; the threshold and the mode decoded from       *)
(* encodeTimestampTerms(t, mode) are t and mode; and encoding the decoded  *)
(* values again gives the same terms.                                      *)
(***************************************************************************)
\* the token of amount-limit terms: terms.slice(2, 42)
DecodeToken(terms) == HexSlice(terms, 2, 42)

ModeName(modeValue) == IF modeValue = 0 THEN "before" ELSE "after"

C16_EncodeDecodeInverse ==
    call.state = "returned" =>
        /\ call.fn = "encodeERC20TransferAmountTerms" =>
               /\ DecodeAmountLimit(call.ret) = call.amount
               /\ DecodeToken(call.ret) = call.token
               /\ encodeERC20TransferAmountTerms(DecodeToken(call.ret),
                                                 DecodeAmountLimit(call.ret)) = call.ret
        /\ call.fn = "encodeTimestampTerms" =>
               /\ DecodeThreshold(call.ret) = call.timestamp
               /\ ModeName(DecodeMode(call.ret)) = call.mode
               /\ encodeTimestampTerms(DecodeThreshold(call.ret),
                                       ModeName(DecodeMode(call.ret))) = call.ret

\* an amount of 0 on a token that is not USDC has been encoded and decoded
C16_Witness ==
    /\ call.state = "returned"
    /\ call.fn = "encodeERC20TransferAmountTerms"
    /\ call.token = OTHER_TOKEN
    /\ call.amount = 0
    /\ DecodeAmountLimit(call.ret) = 0

(***************************************************************************)
(* C17. The delegation hash depends on exactly delegate, delegator,        *)
(* authority, the ordered list of (enforcer, terms) of the caveats, and    *)
(* salt: two delegations equal on these have the same getDelegationHash    *)
(* whatever their signature and caveat args are, and two delegations that  *)
(* differ in one of them, be it only the order of two caveats, have        *)
(* different hashes.  Addresses are equal when they name the same account. *)
(***************************************************************************)
HashedFields(d) ==
    << d.delegate.id, d.delegator.id, d.authority,
       [i \in 1..Len(d.caveats) |-> <<d.caveats[i].enforcer.id, d.caveats[i].terms>>],
       d.salt >>

C17_HashDependsOnExactly ==
    (call.fn = "getDelegationHash" /\ call.state = "returned") =>
        ( call.ret[1] = call.ret[2] <=> HashedFields(call.a) = HashedFields(call.b) )

\* two delegations with the same caveats in another order, and two that differ
\* in the args of a caveat only, have been hashed
C17_Witness ==
    /\ call.fn = "getDelegationHash"
    /\ call.state = "returned"
    /\ \/ /\ call.a.caveats # call.b.caveats
          /\ {call.a.caveats[i] : i \in 1..Len(call.a.caveats)}
                 = {call.b.caveats[i] : i \in 1..Len(call.b.caveats)}
          /\ call.ret[1] # call.ret[2]
       \/ /\ call.a.caveats[1].args # call.b.caveats[1].args
          /\ call.ret[1] = call.ret[2]

(***************************************************************************)
(* C18. The signing payload equals the canonical hash: the message that    *)
(* signDelegation hands to the signer under EIP712_TYPES hashes to the     *)
(* struct hash that getDelegationHash computes for the delegation, so the  *)
(* signature of every written delegation is over its _meta.delegationHash, *)
(* the identifier its children use as authority.                           *)
(***************************************************************************)
\* the message the signature of a written delegation is over
SignedMessage(file) == file.signature[2]

C18_SigningPayload ==
    \A p \in Written :
        /\ HashStruct(SignedMessage(files[p][1])) = files[p][1].meta.delegationHash
        /\ HashStruct(SignedMessage(files[p][1]))
               = getDelegationHash(RestoreSalt(files[p][1]))

(***************************************************************************)
(* C19. File round trip: every script that reads a written delegation file *)
(* and hashes the delegation (check-scope, create-subdelegation on the     *)
(* parent file, execute-transfer, revoke-delegation) has restored salt to  *)
(* its numeric type before hashing and gets the file's                     *)
(* _meta.delegationHash; the signature, _meta and _chain of the file do    *)
(* not affect the recomputed hash.                                         *)
(***************************************************************************)
WithoutAdvisory(file) ==
    [file EXCEPT !.signature = <<>>, !.meta = <<>>, !.chain = <<>>]

C19_FileRoundTrip ==
    /\ "hashed" \in DOMAIN run =>
           /\ run.hashed.saltType = "bigint"
           /\ run.hashed.hash = run.hashed.recorded
    /\ \A p \in Written :
           getDelegationHash(RestoreSalt(WithoutAdvisory(files[p][1])))
               = files[p][1].meta.delegationHash

(***************************************************************************)
(* C20. Cross-token comparison is rejected: when the amount-limit caveat   *)
(* of the parent names a token other than USDC, the token of the requested *)
(* child amount, validateSubDelegationScope reports an error; it never     *)
(* returns valid after comparing limits of different tokens.               *)
(***************************************************************************)
\* the amount-limit caveats of the parent that are on another token than USDC
CrossTokenCaveats ==
    IF call.fn = "validateSubDelegationScope" /\ call.state = "returned"
    THEN { i \in AmountCaveatsOf(call.delegation) :
               /\ ~WrongLength(call.delegation.caveats[i])
               /\ DecodeToken(call.delegation.caveats[i].terms) # USDC_ADDRESS }
    ELSE {}

C20_CrossTokenRejected ==
    CrossTokenCaveats # {} => (~call.ret.valid /\ Len(call.ret.errors) > 0)

(***************************************************************************)
(* C21. Only recognized caveats can produce violations: the result of      *)
(* validateTransfer is the result for the same delegation with every       *)
(* caveat that is neither an amount limit nor a time window taken out,     *)
(* wherever those caveats stand in the list; a delegation without caveats  *)
(* is valid for every transfer.                                            *)
(***************************************************************************)
Recognized(c) == IsAmountCaveat(c) \/ IsTimeCaveat(c)

RecognizedOnly(delegation) ==
    [delegation EXCEPT !.caveats = SelectSeq(delegation.caveats, Recognized)]

C21_OnlyRecognizedCaveats ==
    TransferReturned =>
        /\ call.ret = validateTransfer(RecognizedOnly(call.delegation), call.to,
                                       call.amount, call.ms)
        /\ call.delegation.caveats = <<>> => (call.ret.valid /\ call.ret.errors = <<>>)
        /\ \A k \in 1..Len(call.ret.errors) :
               call.ret.errors[k].msg \in {AmountLimitMsg, ExpiredMsg}

\* a caveat of an unknown kind stands before an exceeded amount limit, and the
\* only violation reported is the amount's
C21_Witness ==
    /\ TransferReturned
    /\ Len(call.delegation.caveats) = 2
    /\ ~Recognized(call.delegation.caveats[1])
    /\ call.delegation.caveats[1].enforcer = DELEGATION_FRAMEWORK.RedeemerEnforcer
    /\ ExceededCaveats = {2}
    /\ Len(call.ret.errors) = 1

(***************************************************************************)
(* C22. Invalidity is a value, not an exception: for every delegation      *)
(* whose recognized caveats have well-formed terms and every proposed      *)
(* transfer or child parameters, validateTransfer and                      *)
(* validateSubDelegationScope return {valid, errors} without throwing, and *)
(* valid is true exactly when errors is empty.                             *)
(***************************************************************************)
C22_InvalidityIsAValue ==
    (call.fn \in {"validateTransfer", "validateSubDelegationScope"}
     /\ call.state = "returned") =>
        /\ "threw" \notin DOMAIN call.ret
        /\ DOMAIN call.ret = {"valid", "errors"}
        /\ call.ret.valid <=> call.ret.errors = <<>>

(***************************************************************************)
(* C23. No cumulative tracking: the outcome of a validateSubDelegationScope *)
(* or validateTransfer call depends only on its arguments and the clock,   *)
(* never on earlier calls: after any sequence of accepted siblings or      *)
(* transfers against the same parent a further request is accepted exactly *)
(* when it fits the parent's limit by itself, even when the accepted       *)
(* amounts add up to more than the limit.                                  *)
(***************************************************************************)
Requests == IF call.fn = "requests" THEN call.history ELSE <<>>

\* the request fits the parent by itself: the amount is within the limit and
\* the time is within the window
FitsByItself(request) ==
    LET limit == LimitOf(call.delegation.caveats[1])
        expiry == TimeOf(call.delegation.caveats[2])[1]
        now == NowSeconds(request.ms)
    IN  /\ ParseUnits(request.amount, USDC_DECIMALS) <= limit
        /\ IF request.fn = "validateTransfer" THEN now < expiry ELSE now + 1 <= expiry

C23_NoCumulativeTracking ==
    \A k \in 1..Len(Requests) :
        /\ Requests[k].ret.valid <=> FitsByItself(Requests[k])
        /\ \A j \in 1..Len(Requests) :
               ( Requests[j].fn = Requests[k].fn
                 /\ Requests[j].amount = Requests[k].amount
                 /\ Requests[j].ms = Requests[k].ms )
               => Requests[j].ret = Requests[k].ret

\* two siblings of 2 USDC each were accepted against a parent limit of 2 USDC
C23_Witness ==
    /\ Len(Requests) >= 2
    /\ \A k \in 1..2 :
           /\ Requests[k].fn = "validateSubDelegationScope"
           /\ Requests[k].amount = Num(2, <<>>)
           /\ Requests[k].ret.valid
    /\ AcceptedTotal(Requests) > LimitOf(call.delegation.caveats[1])

(***************************************************************************)
(* C24. Idempotence of validation: two calls of validateTransfer with the  *)
(* same delegation and amount while the clock does not advance return the  *)
(* same result, the same valid flag and the same violations in the same    *)
(* order, whatever the recipients are; the delegation is left as it was.   *)
(***************************************************************************)
TransferRequests == {k \in 1..Len(Requests) : Requests[k].fn = "validateTransfer"}

SubDelegationRun(r) == r.cmd = "create-subdelegation"

\* the caller of the run is the delegate of the parent it read
CallerIsDelegate(r) ==
    /\ "account" \in DOMAIN r.input
    /\ ToLowerCase(r.input.account) = ToLowerCase(r.input.parent.delegate)

\* the scope check of the run's parameters, at the time the run made it
ScopeCheck(r) ==
    validateSubDelegationScope(r.input.parent, r.input.params, r.input.ms)

\* the run did not get through the two checks
GateClosed(r) ==
    \/ ~CallerIsDelegate(r)
    \/ "params" \in DOMAIN r.input /\ ~ScopeCheck(r).valid

Gate(r) ==
    SubDelegationRun(r) =>
        /\ r.signed # <<>> =>
               /\ CallerIsDelegate(r)
               /\ "params" \in DOMAIN r.input
               /\ ScopeCheck(r).valid
        /\ GateClosed(r) =>
               /\ r.exit # 0
               /\ r.signed = <<>>
               /\ r.printed = <<>>
               /\ r.errors = (IF CallerIsDelegate(r) THEN ScopeCheck(r).errors ELSE <<>>)

C25_SubDelegationGate ==
    [][ LET r == run'
        IN  /\ Gate(r)
            /\ (SubDelegationRun(r) /\ GateClosed(r)) => files' = files ]_vars

\* a run of the delegate that the scope check stopped, with its violations
C25_Witness ==
    /\ SubDelegationRun(run)
    /\ CallerIsDelegate(run)
    /\ "params" \in DOMAIN run.input
    /\ ~ScopeCheck(run).valid
    /\ run.exit = 1
    /\ run.errors # <<>>
    /\ run.signed = <<>>

(***************************************************************************)
(* C26. Transfer gate: execute-transfer calls the ledger client, to        *)
(* simulate, only if the caller's address equals the delegation's          *)
(* delegate, validateTransfer returned valid, --dry-run is not set and     *)
(* --simulate is set; with --dry-run no ledger call is made, a validation  *)
(* failure ends the process with a nonzero status before any ledger call,  *)
(* and no path calls the submit operation of the ledger.                   *)
(***************************************************************************)
TransferRun == run.cmd = "execute-transfer"

\* the validation of the run's transfer, at the time the run made it
TransferCheck ==
    validateTransfer(run.input.delegation, run.input.to, run.input.amount, run.input.ms)

C26_TransferGate ==
    TransferRun =>
        /\ run.ledger # <<>> =>
               /\ "account" \in DOMAIN run.input
               /\ ToLowerCase(run.input.account)
                      = ToLowerCase(run.input.delegation.delegate)
               /\ TransferCheck.valid
               /\ "simulate" \in DOMAIN run.input
               /\ ~run.input.dryRun
               /\ run.input.simulate
        /\ ("dryRun" \in DOMAIN run.input /\ run.input.dryRun) => run.ledger = <<>>
        /\ ("amount" \in DOMAIN run.input /\ ~TransferCheck.valid) =>
               /\ run.exit # 0
               /\ run.ledger = <<>>
               /\ run.errors = TransferCheck.errors
        /\ \A k \in 1..Len(run.ledger) : run.ledger[k].fn = "simulateContract"

\* a run of the delegate with a valid transfer and --simulate asked the ledger
\* client to simulate
C26_Witness ==
    /\ TransferRun
    /\ Len(run.ledger) = 1
    /\ run.ledger[1].fn = "simulateContract"
    /\ ~run.input.dryRun
    /\ run.input.simulate
    /\ TransferCheck.valid

(***************************************************************************)
(* C27. Revocation gate: revoke-delegation submits disableDelegation to    *)
(* the ledger only if the caller's address equals the delegation's         *)
(* delegator and --execute is set; on an identity mismatch it ends with a  *)
(* nonzero status before any ledger read or write, and without --execute   *)
(* it makes at most the read-only query of the revocation status.          *)
(***************************************************************************)
RevokeRun == run.cmd = "revoke-delegation"

Submissions == {k \in 1..Len(run.ledger) : run.ledger[k].functionName = "disableDelegation"}

CallerIsDelegator ==
    /\ "account" \in DOMAIN run.input
    /\ ToLowerCase(run.input.account) = ToLowerCase(run.input.delegation.delegator)

C27_RevocationGate ==
    RevokeRun =>
        /\ Submissions # {} =>
               /\ CallerIsDelegator
               /\ "execute" \in DOMAIN run.input
               /\ run.input.execute
        /\ ~CallerIsDelegator => (run.exit # 0 /\ run.ledger = <<>>)
        /\ ("execute" \in DOMAIN run.input /\ ~run.input.execute) =>
               /\ Submissions = {}
               /\ Len(run.ledger) <= 1
               /\ \A k \in 1..Len(run.ledger) :
                      /\ run.ledger[k].functionName = "disabledDelegations"
                      /\ run.input.check

\* the delegator ran with --check and --execute: the status was read and the
\* revocation submitted
C27_Witness ==
    /\ RevokeRun
    /\ CallerIsDelegator
    /\ run.input.execute
    /\ Len(run.ledger) = 2
    /\ Submissions = {2}

(***************************************************************************)
(* C28. Root sentinel value: a delegation built by buildDelegation without *)
(* an authority argument has the authority the framework documents as      *)
(* ROOT, the 32 bytes 0xff, and check-scope reports a delegation as a root *)
(* delegation exactly when its authority is that value.                    *)
(***************************************************************************)
C28_RootSentinel ==
    /\ (run.cmd = "create-delegation" /\ run.exit = 0) =>
           run.signed[1].authority = README_ROOT_AUTHORITY
    /\ run.cmd = "check-scope" =>
           (run.printed[1].type = "ROOT"
                <=> run.input.delegation.authority = README_ROOT_AUTHORITY)

(***************************************************************************)
(* C29. A parent without an upper time bound is unconstrained: when the    *)
(* parent has no time-window caveat, or only caveats in 'after' mode,      *)
(* validateSubDelegationScope accepts every child expiry; the child expiry *)
(* is compared against a parent upper bound only, and among several        *)
(* time-window caveats against the upper bound, not against the first.     *)
(***************************************************************************)
\* the notAfter bounds of the parent: the thresholds of its 'before' caveats
UpperBounds(delegation) ==
    { DecodeThreshold(delegation.caveats[i].terms) :
        i \in { j \in 1..Len(delegation.caveats) :
                    /\ IsTimeCaveat(delegation.caveats[j])
                    /\ DecodeMode(delegation.caveats[j].terms) = 0 } }

ExpiryRejected ==
    \E k \in 1..Len(call.ret.errors) : call.ret.errors[k].msg = ExpiryScopeMsg

C29_UpperBoundOnly ==
    ScopeReturned =>
        /\ ExpiryRejected =>
               \E bound \in UpperBounds(call.delegation) : ChildExpiry > bound
        /\ ( /\ call.params.expirySeconds # 0
             /\ \E bound \in UpperBounds(call.delegation) : ChildExpiry > bound )
               => ExpiryRejected

(***************************************************************************)
(* C30. Demo state machine: under every interleaving of the clicks that    *)
(* ActionPanel's disabled guards allow and of the completions of the async *)
(* handlers, at most one action is in flight (no action, reset included,   *)
(* starts while loading is true); rootDelegation is set iff step >= 1 and  *)
(* subDelegations is non-empty iff step = 2; a transfer is recorded for a  *)
(* sub-agent only when its sub-delegation exists, at most once between     *)
(* resets, with an amount within the sub-delegation's; the sub-delegated   *)
(* amounts sum to no more than the root amount, so no remaining allowance  *)
(* shown is negative.                                                      *)
(***************************************************************************)
\* the state the last render showed, and the state the next one will show
DemoViews(d) == {d.state, ApplyQueue(d.state, d.queue)}

DemoConsistent(d) ==
    /\ Len(d.tasks) <= 1
    /\ \A k \in 1..3 : d.recorded[k] <= 1
    /\ \A s \in DemoViews(d) :
         /\ (s.rootDelegation # null) <=> (s.step >= 1)
         /\ (s.subDelegations # <<>>) <=> (s.step = 2)
         /\ \A idx \in 0..2 :
              /\ s.transfers[idx + 1] # null =>
                     /\ idx + 1 <= Len(s.subDelegations)
                     /\ s.transfers[idx + 1].amount
                            <= s.subDelegations[idx + 1].amount
                     /\ d.recorded[idx + 1] = 1
              /\ SubAgentRemaining(s, idx) >= 0
         /\ s.rootDelegation # null =>
                Sum(s.subDelegations) <= s.rootDelegation.amount
         /\ calculateAgentARemaining(s.rootDelegation, s.subDelegations) >= 0

\* a handler was started, or reset ran
Started(d, e) ==
    \/ Len(e.tasks) > Len(d.tasks)
    \/ (d.state.step # 0 /\ e.state = initialState)

Idle(d) ==
    /\ d.tasks = <<>>
    /\ \A s \in DemoViews(d) : ~s.loading

C30_DemoStateMachine ==
    /\ [] DemoConsistent(demo)
    /\ [][ LET e == demo' IN Started(demo, e) => Idle(demo) ]_vars

\* the three transfers are on show in the round after a reset: the log holds
\* the reset's entry and the entries of one root delegation, one round of
\* sub-delegations and three transfers
C30_Witness ==
    /\ demo.state.step = 2
    /\ \A idx \in 0..2 : hasTransferred(demo.state, idx)
    /\ demo.recorded = <<1, 1, 1>>
    /\ demo.tasks = <<>>
    /\ ~demo.state.loading
    /\ demo.logs = 1 + 11 + 16 + 3 * 15

====
